---------------------------- MODULE Spec2Model ----------------------------
(***************************************************************************)
(* Verification model of the marketplace search / cache pipeline of        *)
(* AGENTE-Busqueda-APIS.                                                   *)
(*                                                                         *)
(*   SpecProbe : the probing marketplace client ("complex" AgenteML.search)*)
(*               one step per HTTP request of its nested loops.            *)
(*   SpecClient: one listing through the single-request client             *)
(*               (search, _normalize_result) and the single-host client.   *)
(*   SpecCache : CacheManager over a networked store that can fail, one    *)
(*               step per call, with a clock for the TTLs.                 *)
(***************************************************************************)
EXTENDS Integers, Sequences, FiniteSets, TLC

VARIABLES
    \* ---- probing client: tests/agente_ml_complex.py, AgenteML.search ----
    max_pages,                \* argument max_pages
    hostMode,                 \* environment: how each host answers
    pc,                       \* "page_loop" | "page_loop_exit" | "done" | "idle"
    endpoint_index,           \* loop variable of `for endpoint_index, endpoint`
    host_index,               \* loop variable of `for host_index, host`
    param_index,              \* loop variable of `for param_index, params`
    page,                     \* loop variable of `for page in range(max_pages)`
    consecutive_empty_pages,  \* local counter
    total_pages_processed,    \* local counter
    all_results,              \* local list, one entry per listing
    requests,                 \* log of the requests.get calls issued
    search_result,            \* the returned list (once pc = "done")
    \* ---- one listing through the single-request and single-host clients ----
    stage,                    \* "start" | "normalized" | "renormalized" | "simple_done" | "searched" | "idle"
    raw_item,                 \* the listing as the provider returns it
    api_response,             \* the provider's answer to the request of search
    normalized,               \* _normalize_result(raw_item)
    renormalized,             \* _normalize_result(normalized)
    formatted_results,        \* what the single-host client's search returns
    search_return,            \* what the single-request client's search returns
    \* ---- services/cache_manager.py, CacheManager ----
    use_redis,                \* self.use_redis
    memory_cache,             \* self._memory_cache: key -> {'data', 'expiry'}
    redis_store,              \* what the networked store holds: key -> text, expiry
    redis_up,                 \* environment: the networked store answers
    now,                      \* environment: time.time()
    last_call,                \* the last call of the caller and what it returned
    written,                  \* history: per key, the last set since a delete
    \* ---- concurrent runs inside CacheManager.get / set (in-process map) ----
    run_pc,                   \* per run: "idle" | "get_in" | "get_item" | "get_expiry" | "get_del"
    run_key,                  \* per run: the key of its call
    run_item,                 \* per run: local `item`
    run_ret,                  \* per run: what its last call returned
    run_deleted,              \* history, per run: the entry its last `del` removed, and when
    \* ---- src/search_agent/services/cache.py, CacheManager ----
    client,                   \* self._client: "redis" | "none" ("idle": not constructed)
    \* ---- agents/agente_google.py, AgenteGoogle.search_seller_contacts ----
    contact_cache,            \* self.contact_cache: cache_key -> contact_info
    web_pc,                   \* "idle" | "scan" | "store" ("off": not constructed)
    web_requests,             \* number of api_client.get calls issued so far
    seller_nickname,          \* argument of the call in progress
    search_items,             \* local search_items
    web_index,                \* number of items the loop has processed
    contact_info,             \* local contact_info
    web_last,                 \* the last call: its name, whether it issued a request, its result
    web_done,                 \* history: per name, the result of its completed lookups
    \* ---- agents/agente_gmaps.py, AgenteGMaps ----
    gmaps_cache,              \* self.cache is a CacheManager ("off": not constructed)
    gmaps_fallback_key,       \* self.api_key != "maps-data.p.rapidapi.com"
    gmaps_last,               \* the last call: arguments, provider answers, requests, result
    gmaps_prior,              \* history: the names a provider gave results for
    gmaps_failed,             \* history: the names the providers were asked for in vain
    \* ---- agents/agente_contacts.py, AgenteContacts ----
    agente_web,               \* self.agente_web is set ("off": not constructed)
    has_formatter,            \* self.has_formatter
    contacts_last,            \* the last call: arguments, sub-resolver answers, queries, result
    product_contact,          \* product["contact_info"] the caller made of the last result
    \* ---- search_agent/processing/filtering.py, AgenteFiltro ----
    excluded_brands,          \* self.excluded_brands
    filter_config,            \* the filters.* values of self.config
    filter_pc,                \* "idle" | "done" ("off": not constructed)
    filter_given,             \* history: the listings as the last call was given them
    filter_input,             \* the list the last call was given, as the call left it
    filtered_listings,        \* what the last call returned
    filter_again,             \* what a second call on the same list returned
    \* ---- search_agent/processing/ranking.py, AgenteRanking ----
    weights,                  \* self.weights
    rank_pc,                  \* "idle" | "ranked" | "twice" | "scored" | "priced" ("off": not constructed)
    rank_call,                \* the last call: arguments, the list after it, result
    \* ---- app/orquestador.py, search_agent/core/orchestrator.py ----
    orchestrator,             \* which class: "app" | "search_agent" ("off": not constructed)
    secrets,                  \* self.secrets: the names it holds
    pipe_pc,                  \* "idle" | "search" | "filter" | "rank" | "contact" | "done"
    pipe_args,                \* query and country_code of the call
    pipe_products,            \* the list the next stage is given
    pipe_index,               \* the product the contact loop is at
    pipe_trace,               \* history: the stage calls of the run, in order
    pipe_result,              \* what the call returned or raised
    pipe_deadline,            \* the time the caller of the run allows it (the method takes no deadline)
    pipe_clock,               \* the time spent in the run so far
    \* ---- app/api_client.py, search_agent/utils/http_client.py ----
    http_client,              \* which class: "APIClient" | "HTTPClient" ("off": not constructed)
    http_pc,                  \* "idle" | "attempt" | "done"
    http_method,              \* the method of the call
    http_attempts,            \* history: what each attempt of the call met
    http_result,              \* the response returned or the exception raised
    \* ---- tests/agente_ml_simple.py, AgenteML.search: the pagination ----
    simple_pc,                \* "loop" | "done" ("idle": no search)
    simple_max_pages,         \* max_pages of the call
    min_results,              \* min_results of the call
    current_page,
    simple_empty_pages,       \* consecutive_empty_pages
    results_with_seller,
    simple_last,              \* history: the last request, its number, page and answer
    \* ---- services/cache_manager.py: two CacheManagers given the same calls ----
    twin_memory,              \* _memory_cache of the one without networked store
    twin_redis,               \* the networked store of the other
    twin_heap,                \* the objects of the caller: what each holds now
    twin_now,                 \* time.time()
    twin_last                 \* the last call and what each of the two returned

probeVars == <<max_pages, hostMode, pc, endpoint_index, host_index, param_index,
               page, consecutive_empty_pages, total_pages_processed,
               all_results, requests, search_result>>

clientVars == <<stage, raw_item, api_response, normalized, renormalized,
                formatted_results, search_return>>

cacheVars == <<use_redis, memory_cache, redis_store, redis_up, now, last_call, written>>

runVars == <<run_pc, run_key, run_item, run_ret, run_deleted>>

storeVars == <<client>>

webVars == <<contact_cache, web_pc, web_requests, seller_nickname, search_items,
             web_index, contact_info, web_last, web_done>>

gmapsVars == <<gmaps_cache, gmaps_fallback_key, gmaps_last, gmaps_prior, gmaps_failed>>

contactsVars == <<agente_web, has_formatter, contacts_last, product_contact>>

filterVars == <<excluded_brands, filter_config, filter_pc, filter_given, filter_input,
               filtered_listings, filter_again>>

rankVars == <<weights, rank_pc, rank_call>>

pipelineVars == <<orchestrator, secrets, pipe_pc, pipe_args, pipe_products, pipe_index,
                  pipe_trace, pipe_result,
                  pipe_deadline, pipe_clock>>

httpVars == <<http_client, http_pc, http_method, http_attempts, http_result>>

simpleVars == <<simple_pc, simple_max_pages, min_results, current_page, simple_empty_pages,
                results_with_seller, simple_last>>

twinVars == <<twin_memory, twin_redis, twin_heap, twin_now, twin_last>>

vars == <<probeVars, clientVars, cacheVars, runVars, storeVars, webVars, gmapsVars,
          contactsVars, filterVars, rankVars, pipelineVars, httpVars, simpleVars, twinVars>>

\* What an action of one component leaves alone: the other components.
notProbeVars == <<clientVars, cacheVars, runVars, storeVars, webVars, gmapsVars, contactsVars, filterVars,
                  rankVars, pipelineVars, httpVars, simpleVars, twinVars>>
notClientVars == <<probeVars, cacheVars, runVars, storeVars, webVars, gmapsVars, contactsVars, filterVars,
                   rankVars, pipelineVars, httpVars, simpleVars, twinVars>>
notCacheVars == <<probeVars, clientVars, runVars, storeVars, webVars, gmapsVars, contactsVars, filterVars,
                  rankVars, pipelineVars, httpVars, simpleVars, twinVars>>
notRunVars == <<probeVars, clientVars, storeVars, webVars, gmapsVars, contactsVars, filterVars,
                rankVars, pipelineVars, httpVars, simpleVars, twinVars>>
notStoreVars == <<probeVars, clientVars, runVars, webVars, gmapsVars, contactsVars, filterVars,
                  rankVars, pipelineVars, httpVars, simpleVars, twinVars>>
notWebVars == <<probeVars, clientVars, cacheVars, runVars, storeVars, gmapsVars, contactsVars, filterVars,
                rankVars, pipelineVars, httpVars, simpleVars, twinVars>>
notGmapsVars == <<probeVars, clientVars, runVars, storeVars, webVars, contactsVars, filterVars,
                  rankVars, pipelineVars, httpVars, simpleVars, twinVars>>
notContactsVars == <<probeVars, clientVars, cacheVars, runVars, storeVars, webVars, gmapsVars,
                     filterVars, rankVars, pipelineVars, httpVars, simpleVars, twinVars>>
notFilterVars == <<probeVars, clientVars, cacheVars, runVars, storeVars, webVars, gmapsVars,
                   contactsVars, rankVars, pipelineVars, httpVars, simpleVars, twinVars>>
notRankVars == <<probeVars, clientVars, cacheVars, runVars, storeVars, webVars, gmapsVars,
                 contactsVars, filterVars, pipelineVars, httpVars, simpleVars, twinVars>>
notPipelineVars == <<probeVars, clientVars, cacheVars, runVars, storeVars, webVars, gmapsVars,
                     contactsVars, filterVars, rankVars, httpVars, simpleVars, twinVars>>
notHttpVars == <<probeVars, clientVars, cacheVars, runVars, storeVars, webVars, gmapsVars,
                 contactsVars, filterVars, rankVars, pipelineVars, simpleVars, twinVars>>
notTwinVars == <<probeVars, clientVars, cacheVars, runVars, storeVars, webVars, gmapsVars,
                 contactsVars, filterVars, rankVars, pipelineVars, httpVars, simpleVars>>
notSimpleVars == <<probeVars, clientVars, cacheVars, runVars, storeVars, webVars, gmapsVars,
                   contactsVars, filterVars, rankVars, pipelineVars, httpVars, twinVars>>

-----------------------------------------------------------------------------
(* Bounds of the model *)
MaxPagesIn == 4
MaxTime == 2     \* the clock runs from 0 to MaxTime
MaxTTL == 2      \* expire_seconds is drawn from 1..MaxTTL
MaxWebRequests == 2   \* requests the web resolver may issue in a behaviour
MaxPlaces == 4        \* a places provider answers with 0..MaxPlaces results
MaxListings == 2      \* filter_listings is given up to MaxListings listings
MaxProducts == 3      \* rank_products is given up to MaxProducts products
MaxRunProducts == 2   \* the marketplace answers a run with up to MaxRunProducts products
MaxSimplePages == 3   \* the single-host client is called with max_pages in 1..MaxSimplePages

-----------------------------------------------------------------------------
(* Program constants of the probing client *)
NumEndpoints == 5     \* len(endpoints)
NumHosts == 3         \* len(RAPIDAPI_HOSTS)
NumParamOptions == 4  \* len(param_options)
EmptyPagesLimit == 3  \* `if consecutive_empty_pages >= 3`
PageSize == 50        \* 'limit': '50', offset = page * 50

Combos == (1..NumEndpoints) \X (1..NumHosts) \X (1..NumParamOptions)

HostModes == {"fail", "ok", "any"}

\* What one requests.get + decoding can end in.
ErrorKinds == {"request_exception", "status_not_200", "bad_json"}
PageKinds == {"empty", "short_page", "full_page"}

\* The answers a host may give: an always-failing host only errors, an
\* always-succeeding host always returns listings with a seller, any other
\* host may answer anything.
Answers(h) ==
    LET pagesOf(kinds, sellers) ==
            {[kind |-> k, seller |-> s] : k \in kinds, s \in sellers}
        errors == pagesOf(ErrorKinds, {FALSE})
    IN  CASE hostMode[h] = "fail" -> errors
          [] hostMode[h] = "ok" -> pagesOf({"short_page", "full_page"}, {TRUE})
          [] OTHER -> errors \cup pagesOf({"empty"}, {FALSE})
                             \cup pagesOf({"short_page", "full_page"}, BOOLEAN)

\* The listings of one answer: PageSize of them on a full page, one on a
\* short page, each tagged with the combination that returned it.
ResultsOf(answer, combo) ==
    LET n == CASE answer.kind = "full_page" -> PageSize
               [] answer.kind = "short_page" -> 1
               [] OTHER -> 0
    IN  [i \in 1..n |-> [combo |-> combo, seller |-> answer.seller]]

\* `if all_results: break`, the early-break flag of every loop level.
BreakNever(results) == FALSE
BreakOnResults(results) == results # <<>>

\* `if consecutive_empty_pages >= 3: break`
SkipCombination(count) == count >= EmptyPagesLimit

\* `consecutive_empty_pages = 0` at the head of the endpoint loop only: the
\* counter the host and parameter loops enter with.
CounterOnAdvance(count, newEndpoint) == IF newEndpoint THEN 0 ELSE count

ProbeStart ==
    /\ max_pages \in 1..MaxPagesIn
    /\ hostMode \in [1..NumHosts -> HostModes]
    /\ pc = "page_loop"
    /\ endpoint_index = 1
    /\ host_index = 1
    /\ param_index = 1
    /\ page = 0
    /\ consecutive_empty_pages = 0
    /\ total_pages_processed = 0
    /\ all_results = <<>>
    /\ requests = <<>>
    /\ search_result = <<>>

CurrentCombo == <<endpoint_index, host_index, param_index>>

\* One iteration of the page loop: the request and what is done with its answer.
PageRequest ==
    /\ pc = "page_loop"
    /\ page < max_pages
    /\ ~SkipCombination(consecutive_empty_pages)
    /\ requests' = Append(requests, [combo |-> CurrentCombo, page |-> page + 1])
    /\ \E answer \in Answers(host_index) :
          LET results == ResultsOf(answer, CurrentCombo) IN
          IF results = <<>>
          THEN \* non-200, exception or no results: count and `continue`
               /\ consecutive_empty_pages' = consecutive_empty_pages + 1
               /\ page' = page + 1
               /\ UNCHANGED <<all_results, total_pages_processed, pc>>
          ELSE /\ all_results' = all_results \o results
               /\ total_pages_processed' = total_pages_processed + 1
               /\ consecutive_empty_pages' = 0
               /\ IF BreakOnResults(all_results')
                  THEN pc' = "page_loop_exit" /\ page' = page
                  ELSE pc' = "page_loop" /\ page' = page + 1
    /\ UNCHANGED <<max_pages, hostMode, endpoint_index, host_index, param_index,
                   search_result>>
    /\ UNCHANGED notProbeVars

\* Leaving the page loop (exhausted, skipped or broken out of) and then the
\* parameter, host and endpoint loops as far as they end here.
PageLoopExit ==
    /\ \/ pc = "page_loop_exit"
       \/ pc = "page_loop" /\ (page >= max_pages \/ SkipCombination(consecutive_empty_pages))
    /\ IF BreakOnResults(all_results)
          \/ (param_index = NumParamOptions /\ host_index = NumHosts
              /\ endpoint_index = NumEndpoints)
       THEN /\ pc' = "done"
            /\ search_result' = all_results
            /\ UNCHANGED <<endpoint_index, host_index, param_index, page,
                           consecutive_empty_pages>>
       ELSE /\ pc' = "page_loop"
            /\ page' = 0
            /\ search_result' = search_result
            /\ IF param_index < NumParamOptions
               THEN /\ param_index' = param_index + 1
                    /\ UNCHANGED <<host_index, endpoint_index>>
                    /\ consecutive_empty_pages' =
                           CounterOnAdvance(consecutive_empty_pages, FALSE)
               ELSE IF host_index < NumHosts
               THEN /\ param_index' = 1
                    /\ host_index' = host_index + 1
                    /\ UNCHANGED endpoint_index
                    /\ consecutive_empty_pages' =
                           CounterOnAdvance(consecutive_empty_pages, FALSE)
               ELSE /\ param_index' = 1
                    /\ host_index' = 1
                    /\ endpoint_index' = endpoint_index + 1
                    /\ consecutive_empty_pages' =
                           CounterOnAdvance(consecutive_empty_pages, TRUE)
    /\ UNCHANGED <<max_pages, hostMode, total_pages_processed, all_results, requests>>
    /\ UNCHANGED notProbeVars

ProbeNext == PageRequest \/ PageLoopExit

-----------------------------------------------------------------------------
(* Claims about the probing client *)

\* The combinations that have returned at least one listing with a seller.
SellerCombos ==
    {all_results[i].combo : i \in {j \in 1..Len(all_results) : all_results[j].seller}}

RequestedCombos == {requests[i].combo : i \in 1..Len(requests)}

\* C1: the failing-page counter is kept per combination, so when max_pages >= 3
\* and every page of every combination fails, each combination has been issued
\* at least one request by the time the search gives up.
C1_EveryCombinationProbed ==
    (pc = "done" /\ max_pages >= 3 /\ all_results = <<>>)
        => \A c \in Combos : c \in RequestedCombos

\* C2: with one always-failing host and one always-succeeding host, in either
\* priority order, the search returns a non-empty list whose listings all come
\* from the succeeding host.
C2_SucceedingHostServes ==
    (/\ pc = "done"
     /\ \E h \in 1..NumHosts : hostMode[h] = "fail"
     /\ \E h \in 1..NumHosts : hostMode[h] = "ok"
     /\ \A h \in 1..NumHosts : hostMode[h] # "any")
        => /\ search_result # <<>>
           /\ \A i \in 1..Len(search_result) :
                  hostMode[search_result[i].combo[2]] = "ok"

\* C3: once a combination has returned a page with a listing that carries a
\* seller, every request issued from then on goes to that same combination.
C3_StopOnFirstSuccess ==
    [][SellerCombos # {} =>
          \A i \in (Len(requests) + 1)..Len(requests') :
              requests'[i].combo \in SellerCombos]_vars

\* C3 witness: the search has ended on a working combination that is not the
\* first one probed, with endpoints still untried.
C3_Witness ==
    /\ pc = "done"
    /\ SellerCombos # {}
    /\ <<1, 1, 1>> \notin SellerCombos
    /\ Len(requests) >= 2
    /\ endpoint_index < NumEndpoints

\* C4: in the working combination pagination ends only on a short page or once
\* max_pages pages were requested (the probing client takes no minimum number
\* of listings, so that reason to stop never applies); a first full page with
\* sellers does not end it.
C4_PaginationContinues ==
    (pc = "done" /\ SellerCombos # {})
        => \/ Len(all_results) % PageSize # 0
           \/ Cardinality({i \in 1..Len(requests) :
                              requests[i].combo \in SellerCombos}) = max_pages

-----------------------------------------------------------------------------
(***************************************************************************)
(* Python values as the clients see them.  A value carries its dynamic     *)
(* type; a str is a sequence of characters, a dict a function from keys.   *)
(***************************************************************************)
None == [t |-> "none"]
Str(s) == [t |-> "str", v |-> s]
Num(n) == [t |-> "num", v |-> n]
Bool(b) == [t |-> "bool", v |-> b]
Dict(d) == [t |-> "dict", v |-> d]
List(l) == [t |-> "list", v |-> l]
Tuple(l) == [t |-> "tuple", v |-> l]
Url(c) == [t |-> "url", v |-> c]      \* a str holding a URL: the regex captures it offers
Raised == [t |-> "raised"]            \* an exception leaving the expression

NoKeys == [k \in {} |-> None]
IsStr(x) == x.t \in {"str", "url"}
IsDict(x) == x.t = "dict"
IsNum(x) == x.t = "num"

\* d.get(k, default)
Get(d, k, default) == IF k \in DOMAIN d.v THEN d.v[k] ELSE default

\* bool(x)
Truthy(x) ==
    CASE x.t = "none" -> FALSE
      [] x.t = "str" -> x.v # <<>>
      [] x.t = "num" -> x.v # 0
      [] x.t = "bool" -> x.v
      [] x.t = "dict" -> DOMAIN x.v # {}
      [] x.t = "list" -> x.v # <<>>
      [] x.t = "url" -> TRUE

\* a or b
Or(a, b) == IF Truthy(a) THEN a ELSE b

\* d with d[k] = x
With(d, k, x) == Dict([j \in DOMAIN d.v \cup {k} |-> IF j = k THEN x ELSE d.v[j]])

(* str methods, on sequences of characters *)
Por == <<"P", "o", "r", " ">>
VendedorPrefix == <<"V", "e", "n", "d", "e", "d", "o", "r", "-">>

\* s.startswith(p)
StartsWith(s, p) == Len(s) >= Len(p) /\ SubSeq(s, 1, Len(p)) = p

\* s.strip(), the whitespace being the blank
RECURSIVE LStrip(_)
LStrip(s) == IF s # <<>> /\ Head(s) = " " THEN LStrip(Tail(s)) ELSE s
RECURSIVE RStrip(_)
RStrip(s) == IF s # <<>> /\ s[Len(s)] = " " THEN RStrip(SubSeq(s, 1, Len(s) - 1)) ELSE s
Strip(s) == RStrip(LStrip(s))

\* s.replace(p, ''): every non-overlapping occurrence, left to right
RECURSIVE Remove(_, _)
Remove(s, p) ==
    IF s = <<>> THEN <<>>
    ELSE IF StartsWith(s, p) THEN Remove(SubSeq(s, Len(p) + 1, Len(s)), p)
    ELSE <<Head(s)>> \o Remove(Tail(s), p)

\* s.replace(a, b) for single characters
ReplaceChar(s, a, b) == [i \in 1..Len(s) |-> IF s[i] = a THEN b ELSE s[i]]
RemoveChar(s, a) == Remove(s, <<a>>)

(* float(s) for the decimal notations of a price, in thousandths *)
Digits == {"0", "1", "5"}
DigitValue(c) == CASE c = "0" -> 0 [] c = "1" -> 1 [] c = "5" -> 5
RECURSIVE DigitsValue(_)
DigitsValue(s) ==
    IF s = <<>> THEN 0 ELSE 10 * DigitsValue(SubSeq(s, 1, Len(s) - 1)) + DigitValue(s[Len(s)])
AllDigits(s) == \A i \in 1..Len(s) : s[i] \in Digits
\* The fraction digits as thousandths: "5" is 500, "50" is 500, "505" is 505.
FractionValue(s) ==
    CASE Len(s) = 0 -> 0
      [] Len(s) = 1 -> 100 * DigitsValue(s)
      [] Len(s) = 2 -> 10 * DigitsValue(s)
      [] OTHER -> DigitsValue(SubSeq(s, 1, 3))
Dots(s) == {i \in 1..Len(s) : s[i] = "."}
Float(s) ==
    IF s = <<>> \/ Cardinality(Dots(s)) > 1 THEN Raised
    ELSE IF Dots(s) = {}
    THEN IF AllDigits(s) THEN Num(1000 * DigitsValue(s)) ELSE Raised
    ELSE LET d == CHOOSE i \in Dots(s) : TRUE
             whole == SubSeq(s, 1, d - 1)
             frac == SubSeq(s, d + 1, Len(s))
         IN  IF AllDigits(whole) /\ AllDigits(frac) /\ Len(whole) + Len(frac) > 0
             THEN Num(1000 * DigitsValue(whole) + FractionValue(frac))
             ELSE Raised

-----------------------------------------------------------------------------
(***************************************************************************)
(* The single-request client: src/search_agent/clients/mercado_libre.py    *)
(***************************************************************************)

NotSpecified == Str(<<"n", "o", "t", "_", "s", "p", "e", "c", "i", "f", "i", "e", "d">>)

\* AgenteML._extract_seller_info
extract_seller_info(item) ==
    LET seller == Get(item, "seller", Dict(NoKeys)) IN
    IF IsStr(seller)
    THEN Dict([id |-> None,
               nickname |-> Str(Strip(Remove(seller.v, Por))),
               power_seller_status |-> None])
    ELSE IF ~IsDict(seller) THEN Raised        \* no .get on None or a number
    ELSE LET nickname == Get(seller, "nickname", Str(<<>>)) IN
         IF ~IsStr(nickname) THEN Raised       \* no .replace on None or a number
         ELSE Dict([id |-> Get(seller, "id", None),
                    nickname |-> Str(Strip(Remove(nickname.v, Por))),
                    power_seller_status |-> Get(seller, "power_seller_status", None),
                    seller_reputation |-> Get(seller, "seller_reputation", Dict(NoKeys))])

\* AgenteML._extract_shipping_info
extract_shipping_info(item) ==
    LET shipping == Get(item, "shipping", Dict(NoKeys)) IN
    IF shipping.t = "bool"
    THEN Dict([free_shipping |-> shipping,
               store_pick_up |-> Bool(FALSE),
               logistic_type |-> NotSpecified])
    ELSE IF IsDict(shipping)
    THEN Dict([free_shipping |-> Get(shipping, "free_shipping", Bool(FALSE)),
               store_pick_up |-> Get(shipping, "store_pick_up", Bool(FALSE)),
               logistic_type |-> Get(shipping, "logistic_type", NotSpecified),
               mode |-> Get(shipping, "mode", NotSpecified)])
    ELSE Dict([free_shipping |-> Bool(FALSE),
               store_pick_up |-> Bool(FALSE),
               logistic_type |-> NotSpecified])

\* AgenteML._extract_location_info
extract_location_info(item) ==
    LET location == Get(item, "location", Dict(NoKeys))
        address == Get(item, "address", Dict(NoKeys))
    IN  IF ~IsDict(location) \/ ~IsDict(address) THEN Raised
        ELSE Dict([city |-> Or(Get(location, "city", None),
                               Get(address, "city_name", Str(<<>>))),
                   state |-> Or(Get(location, "state", None),
                                Get(address, "state_name", Str(<<>>))),
                   country |-> Or(Get(location, "country", None),
                                  Get(address, "country_name", Str(<<>>))),
                   latitude |-> Get(location, "latitude", None),
                   longitude |-> Get(location, "longitude", None)])

\* AgenteML._parse_price
parse_price(price) ==
    IF price.t = "none" THEN Num(0)
    ELSE IF IsNum(price) THEN price
    ELSE IF price.t = "str"
    THEN LET price_str ==
                 Strip(ReplaceChar(RemoveChar(RemoveChar(price.v, "$"), " "), ",", "."))
             parsed == Float(price_str)
         IN  IF parsed = Raised THEN Num(0) ELSE parsed
    ELSE Num(0)

\* int(x) of a quantity
ToInt(x) ==
    IF IsNum(x) THEN x
    ELSE IF x.t = "str" /\ x.v # <<>> /\ AllDigits(x.v) THEN Num(DigitsValue(x.v))
    ELSE Raised

\* AgenteML._normalize_result
normalize_result(item) ==
    IF ~Truthy(item) THEN Dict(NoKeys)
    ELSE
    LET seller_info == extract_seller_info(item)
        shipping_info == extract_shipping_info(item)
        location_info == extract_location_info(item)
        available_quantity == ToInt(Get(item, "available_quantity", Num(0)))
        sold_quantity == ToInt(Get(item, "sold_quantity", Num(0)))
    IN  IF Raised \in {seller_info, location_info, available_quantity, sold_quantity}
        THEN Raised
        ELSE Dict([id |-> Get(item, "id", Str(<<>>)),
                   title |-> Get(item, "title", Str(<<>>)),
                   price |-> parse_price(Get(item, "price", None)),
                   original_price |-> parse_price(Get(item, "original_price", None)),
                   currency_id |-> Get(item, "currency_id", Str(<<"A", "R", "S">>)),
                   available_quantity |-> available_quantity,
                   sold_quantity |-> sold_quantity,
                   condition |-> Get(item, "condition", NotSpecified),
                   permalink |-> Or(Get(item, "url", None),
                                    Get(item, "permalink", Str(<<>>))),
                   thumbnail |-> Or(Get(item, "thumbnail", None),
                                    Get(item, "thumbnail_url", Str(<<>>))),
                   accepts_mercadopago |-> Get(item, "accepts_mercadopago", Bool(FALSE)),
                   shipping |-> shipping_info,
                   seller |-> seller_info,
                   location |-> location_info,
                   attributes |-> Get(item, "attributes", List(<<>>)),
                   tags |-> Get(item, "tags", List(<<>>)),
                   original_data |-> item,
                   warranty |-> Get(item, "warranty", Str(<<>>)),
                   official_store_name |-> Get(item, "official_store_name", None)])

\* What search returns when it gives up: `return [], 0`.
EmptyResult == [results |-> <<>>, total |-> 0]

\* The ways one request of the provider can fail.
TransportErrors == {"connection_error", "timeout"}
FailedResponses == TransportErrors \cup {"http_error_json", "http_error_text", "malformed_json"}

\* APIClient.get: the transport's exception leaves it once the attempts are
\* used up, and raise_for_status raises on a 4xx/5xx answer.
HttpErrors == {"http_error_json", "http_error_text"}
api_client_get(response) ==
    IF response.kind \in TransportErrors \cup HttpErrors THEN Raised ELSE response

\* AgenteML._extract_results
extract_results(data) ==
    IF data.t = "list" THEN data.v
    ELSE IF "data" \in DOMAIN data.v /\ IsDict(data.v["data"])
            /\ "results" \in DOMAIN data.v["data"].v
    THEN data.v["data"].v["results"].v
    ELSE IF "results" \in DOMAIN data.v THEN data.v["results"].v
    ELSE <<>>

\* AgenteML._extract_total_results
extract_total_results(data, default) ==
    IF IsDict(data) /\ "paging" \in DOMAIN data.v /\ "total" \in DOMAIN data.v["paging"].v
    THEN ToInt(data.v["paging"].v["total"]).v
    ELSE IF IsDict(data) /\ "data" \in DOMAIN data.v /\ IsDict(data.v["data"])
            /\ "paging" \in DOMAIN data.v["data"].v
            /\ "total" \in DOMAIN data.v["data"].v["paging"].v
    THEN ToInt(data.v["data"].v["paging"].v["total"]).v
    ELSE default

\* The try block of AgenteML._process_search_response.
process_search_response_try(response) ==
    IF response.kind \in {"http_error_text", "malformed_json"} THEN Raised  \* response.json()
    ELSE IF response.kind = "http_error_json" THEN EmptyResult   \* status_code != 200
    ELSE LET results == extract_results(response.data)
             normalized_results == [i \in 1..Len(results) |-> normalize_result(results[i])]
         IN  IF \E i \in 1..Len(results) : normalized_results[i] = Raised
             THEN Raised
             ELSE [results |-> normalized_results,
                   total |-> extract_total_results(response.data, Len(normalized_results))]

\* AgenteML._process_search_response: `except Exception: return [], 0`
process_search_response(response) ==
    LET outcome == process_search_response_try(response) IN
    IF outcome = Raised THEN EmptyResult ELSE outcome

\* The try block of AgenteML.search.
search_try(response) ==
    IF api_client_get(response) = Raised THEN Raised
    ELSE process_search_response(response)

\* AgenteML.search without its handler: the exception leaves the call.
search_uncaught(response) == search_try(response)

\* AgenteML.search: `except Exception: return [], 0`
search(response) ==
    LET outcome == search_try(response) IN
    IF outcome = Raised THEN EmptyResult ELSE outcome

-----------------------------------------------------------------------------
(***************************************************************************)
(* The single-host paginating client: tests/agente_ml_simple.py.  What its *)
(* search does with one listing of a page (first loop) and with one entry  *)
(* of all_results (formatting loop).                                       *)
(***************************************************************************)

\* The URL patterns of the first loop, in the order they are tried.
UrlPatterns == <<"mla", "seller_id", "desde", "seller">>

\* The first of `patterns` that re.search finds in the URL: its group(1), or None.
RECURSIVE UrlSearch(_, _)
UrlSearch(url, patterns) ==
    IF patterns = <<>> \/ url.t # "url" THEN None
    ELSE IF Head(patterns) \in DOMAIN url.v THEN Str(url.v[Head(patterns)])
    ELSE UrlSearch(url, Tail(patterns))

Unknown == Str(<<"u", "n", "k", "n", "o", "w", "n">>)

\* The seller name the first loop reads from the item itself (lines 185-204).
simple_seller_name(item) ==
    LET seller == Get(item, "seller", None)
        fromSeller ==
            IF IsDict(seller)
            THEN IF Truthy(Get(seller, "nickname", None)) THEN Get(seller, "nickname", None)
                 ELSE Or(Get(seller, "id", None), Get(seller, "name", None))
            ELSE IF seller.t = "str"
            THEN IF StartsWith(seller.v, Por)
                 THEN Str(Strip(SubSeq(seller.v, Len(Por) + 1, Len(seller.v))))
                 ELSE seller
            ELSE None
    IN  IF ~Truthy(fromSeller) /\ Truthy(Get(item, "store_name", None))
        THEN Get(item, "store_name", None)
        ELSE fromSeller

\* item["price"] made a number (lines 249-253), in thousandths.
simple_price(item) ==
    LET price == Get(item, "price", None) IN
    IF "price" \in DOMAIN item.v /\ price.t = "str"
    THEN LET parsed == Float(ReplaceChar(RemoveChar(RemoveChar(price.v, "$"), "."), ",", "."))
         IN  With(item, "price", IF parsed = Raised THEN Num(0) ELSE parsed)
    ELSE item

\* One iteration of `for item in results` (lines 172-265): whether the item is
\* appended to all_results, and the item as the loop leaves it.
simple_process_item(item) ==
    IF ~IsDict(item) \/ ~Truthy(Get(item, "id", None)) \/ ~Truthy(Get(item, "title", None))
    THEN [appended |-> FALSE, item |-> item]
    ELSE
    LET given_id == Get(item, "seller_id", None)
        given_name == simple_seller_name(item)
        listing_url == Or(Get(item, "url", Str(<<>>)), Get(item, "permalink", Str(<<>>)))
        extracted == IF ~Truthy(given_id) /\ ~Truthy(given_name) /\ Truthy(listing_url)
                     THEN UrlSearch(listing_url, UrlPatterns)
                     ELSE None
        seller_id == IF Truthy(extracted) THEN extracted ELSE given_id
        found_name == IF Truthy(extracted) THEN extracted ELSE given_name
        seller_name == IF ~Truthy(found_name)
                       THEN Str(VendedorPrefix \o Get(item, "id", None).v)
                       ELSE found_name
        with_seller == With(item, "seller",
                            Dict([nickname |-> seller_name, id |-> Or(seller_id, Unknown)]))
    IN  IF ~Truthy(seller_id) THEN [appended |-> FALSE, item |-> with_seller]
        ELSE IF ~IsStr(seller_name)      \* seller_name.startswith on a number
        THEN [appended |-> FALSE, item |-> with_seller]
        ELSE [appended |-> TRUE, item |-> simple_price(with_seller)]

\* One iteration of the formatting loop (lines 316-387): the product added to
\* formatted_results, or None when the entry is left out.
simple_format_item(item) ==
    LET seller_name == Get(item, "seller", None)
        given_id == Get(item, "seller_id", None)
        listing_url == Get(item, "url", Str(<<>>))
        extracted == IF ~Truthy(given_id) /\ Truthy(listing_url)
                     THEN UrlSearch(listing_url, <<"mla">>)
                     ELSE None
        seller_id == IF Truthy(extracted) THEN extracted ELSE given_id
    IN  IF ~Truthy(seller_id) THEN None
        ELSE IF Truthy(seller_name) /\ ~IsStr(seller_name)
        THEN None        \* seller_name.startswith raises; `except Exception` skips the entry
        ELSE LET name == IF ~Truthy(seller_name) \/ StartsWith(seller_name.v, VendedorPrefix)
                         THEN seller_id ELSE seller_name
             IN  Dict([id |-> Get(item, "id", Str(<<>>)),
                       title |-> Get(item, "title", Str(<<>>)),
                       price |-> Get(item, "price", Num(0)),
                       currency |-> Get(item, "currency", Str(<<>>)),
                       condition |-> Get(item, "condition", Str(<<>>)),
                       thumbnail |-> Get(item, "thumbnail", Str(<<>>)),
                       listing_url |-> Get(item, "url", Str(<<>>)),
                       seller |-> Dict([id |-> seller_id,
                                        nickname |-> IF name.t = "str" THEN Str(Strip(name.v))
                                                     ELSE name,
                                        reputation |-> Get(item, "seller_reputation",
                                                           Dict(NoKeys))]),
                       shipping |-> Dict([free_shipping |->
                                              Get(item, "free_shipping", Bool(FALSE))]),
                       address |-> Dict([city |-> Get(item, "location", Str(<<>>))])])

\* search over a provider whose only page holds `item`: formatted_results.
simple_search(item) ==
    LET first == simple_process_item(item) IN
    IF ~first.appended THEN <<>>
    ELSE LET product == simple_format_item(first.item) IN
         IF product = None THEN <<>> ELSE <<product>>

-----------------------------------------------------------------------------
(***************************************************************************)
(* One listing through the clients: the listings and answers tried.        *)
(***************************************************************************)
Absent == [t |-> "absent"]

\* The dict with the keys of f that are present.
ItemOf(f) == Dict([k \in {j \in DOMAIN f : f[j] # Absent} |-> f[k]])

J == <<"J">>
SellerNames ==
    { <<>>, J, Por, Por \o J, <<" ">> \o Por \o J, Por \o Por \o J,
      <<"P">> \o Por \o <<"o", "r", " ">> \o J }

SellerOptions ==
    {Absent} \cup {Str(n) : n \in SellerNames}
             \cup { None,
                    Dict(NoKeys),
                    Dict([nickname |-> Str(Por \o J)]),
                    Dict([nickname |-> Str(J), id |-> Num(7)]),
                    Dict([id |-> Num(7)]) }

PriceOptions ==
    { Absent, Num(1500000), Str(<<"1", "5", "0", "0">>), Str(<<"$", "1", ",", "5">>),
      Str(<<"1", ".", "5", "0", "0", ",", "5">>) }

RawItems ==
    { ItemOf(f) : f \in
        [ id : {Absent, Str(<<"M", "1">>)},
          title : {Absent, Str(<<"t">>)},
          seller : SellerOptions,
          seller_id : {Absent, Num(7)},
          store_name : {Absent, Str(<<"T">>)},
          url : {Absent, Url(NoKeys), Url([mla |-> <<"S">>]), Url([desde |-> <<"S">>])},
          permalink : {Absent, Url([seller |-> <<"S">>])},
          price : PriceOptions,
          shipping : {Absent, Bool(TRUE), Dict([free_shipping |-> Bool(TRUE)])} ] }

\* The answers of the provider to one search request whose page holds `item`.
Responses(item) ==
    {[kind |-> k, data |-> None] : k \in FailedResponses}
    \cup {[kind |-> "ok", data |-> d] : d \in
            { List(<<item>>),
              List(<<>>),
              Dict([results |-> List(<<item>>), paging |-> Dict([total |-> Num(9)])]),
              Dict([data |-> Dict([results |-> List(<<item>>)])]),
              Dict([data |-> List(<<item>>)]) }}

NotRun == [t |-> "not_run"]

ClientStart ==
    /\ stage = "start"
    /\ raw_item \in RawItems
    /\ api_response = NotRun
    /\ normalized = NotRun
    /\ renormalized = NotRun
    /\ formatted_results = <<>>
    /\ search_return = NotRun

ClientIdle ==
    /\ stage = "idle"
    /\ raw_item = NotRun
    /\ api_response = NotRun
    /\ normalized = NotRun
    /\ renormalized = NotRun
    /\ formatted_results = <<>>
    /\ search_return = NotRun

ProbeIdle ==
    /\ max_pages = 0
    /\ hostMode = <<>>
    /\ pc = "idle"
    /\ endpoint_index = 0
    /\ host_index = 0
    /\ param_index = 0
    /\ page = 0
    /\ consecutive_empty_pages = 0
    /\ total_pages_processed = 0
    /\ all_results = <<>>
    /\ requests = <<>>
    /\ search_result = <<>>

\* _normalize_result on the provider's listing.
NormalizeResult ==
    /\ stage = "start"
    /\ normalized' = normalize_result(raw_item)
    /\ stage' = "normalized"
    /\ UNCHANGED <<raw_item, api_response, renormalized, formatted_results, search_return>>
    /\ UNCHANGED notClientVars

\* _normalize_result on a listing that is already normalized.
NormalizeAgain ==
    /\ stage = "normalized"
    /\ normalized # Raised
    /\ renormalized' = normalize_result(normalized)
    /\ stage' = "renormalized"
    /\ UNCHANGED <<raw_item, api_response, normalized, formatted_results, search_return>>
    /\ UNCHANGED notClientVars

\* The single-host client's search, the provider's page holding the listing.
SimpleSearch ==
    /\ stage = "start"
    /\ formatted_results' = simple_search(raw_item)
    /\ stage' = "simple_done"
    /\ UNCHANGED <<raw_item, api_response, normalized, renormalized, search_return>>
    /\ UNCHANGED notClientVars

\* The single-request client's search, whatever the provider answers.
Search ==
    /\ stage = "start"
    /\ \E r \in Responses(raw_item) :
          /\ api_response' = r
          /\ search_return' = search(r)
    /\ stage' = "searched"
    /\ UNCHANGED <<raw_item, normalized, renormalized, formatted_results>>
    /\ UNCHANGED notClientVars

ClientNext == NormalizeResult \/ NormalizeAgain \/ SimpleSearch \/ Search

-----------------------------------------------------------------------------
(***************************************************************************)
(* The cache: services/cache_manager.py, CacheManager.  The networked      *)
(* store is an environment that can stop and resume answering; the clock   *)
(* is time.time(), in whole seconds.                                       *)
(***************************************************************************)
CacheKeys == {"k1", "k2"}

\* The values the callers cache: dicts of results.
CacheValues == { Dict([r |-> List(<<Num(1)>>)]), Dict([r |-> Tuple(<<Num(1)>>)]) }

TTLs == 1..MaxTTL

\* json.loads(json.dumps(value)): what comes back from the text of a value.
RECURSIVE JsonValue(_)
JsonValue(x) ==
    CASE x.t = "dict" -> Dict([k \in DOMAIN x.v |-> JsonValue(x.v[k])])
      [] x.t \in {"list", "tuple"} -> List([i \in 1..Len(x.v) |-> JsonValue(x.v[i])])
      [] OTHER -> x

json_dumps(value) == [t |-> "json", v |-> JsonValue(value)]
json_loads(data) == IF data.t = "json" THEN data.v ELSE Raised   \* JSONDecodeError

\* m with m[k] = x, and m without k
Put(m, k, x) == [j \in DOMAIN m \cup {k} |-> IF j = k THEN x ELSE m[j]]
Del(m, k) == [j \in DOMAIN m \ {k} |-> m[j]]

\* An entry that forgets its lifetime: it expires the moment it is written.
MemoryEntryNoLifetime(value, time, expire_seconds) ==
    [data |-> value, expiry |-> time]

\* set: {'data': value, 'expiry': time.time() + expire_seconds}
MemoryEntry(value, time, expire_seconds) ==
    [data |-> value, expiry |-> time + expire_seconds]

\* An entry that never expires.
NeverExpired(item, time) == TRUE

\* get: `if item['expiry'] > time.time()`
NotExpired(item, time) == item.expiry > time

\* CacheManager.__init__: use_redis only if the ping succeeds.
CacheStart ==
    /\ redis_up \in BOOLEAN
    /\ use_redis = redis_up
    /\ memory_cache = NoKeys
    /\ redis_store = NoKeys
    /\ now = 0
    /\ last_call = [op |-> "none"]
    /\ written = NoKeys

CacheIdle ==
    /\ redis_up = FALSE
    /\ use_redis = FALSE
    /\ memory_cache = NoKeys
    /\ redis_store = NoKeys
    /\ now = 0
    /\ last_call = [op |-> "idle"]
    /\ written = NoKeys

\* What the caller sees of a call: its arguments, its return value, the time
\* and whether the networked store answered.
Call(op, key, ret) == [op |-> op, key |-> key, ret |-> ret, at |-> now, up |-> redis_up]

\* CacheManager.set(key, value, expire_seconds)
CacheSet ==
    \E key \in CacheKeys, value \in CacheValues, expire_seconds \in TTLs :
        /\ IF use_redis
           THEN IF redis_up       \* self.redis.setex(key, expire_seconds, json.dumps(value))
                THEN /\ redis_store' = Put(redis_store, key,
                                           [data |-> json_dumps(value),
                                            expiry |-> now + expire_seconds])
                     /\ last_call' = Call("set", key, TRUE)
                ELSE /\ redis_store' = redis_store       \* except Exception: return False
                     /\ last_call' = Call("set", key, FALSE)
           ELSE /\ redis_store' = redis_store
                /\ last_call' = Call("set", key, TRUE)
        /\ memory_cache' = IF use_redis THEN memory_cache
                           ELSE Put(memory_cache, key, MemoryEntry(value, now, expire_seconds))
        /\ written' = Put(written, key,
                          [value |-> value, at |-> now, expire_seconds |-> expire_seconds])
        /\ UNCHANGED <<use_redis, redis_up, now>>
        /\ UNCHANGED notCacheVars

\* CacheManager.get(key)
CacheGet ==
    \E key \in CacheKeys :
        /\ IF use_redis
           THEN /\ memory_cache' = memory_cache
                /\ IF ~redis_up                       \* except Exception: return None
                   THEN last_call' = Call("get", key, None)
                   ELSE IF key \in DOMAIN redis_store /\ redis_store[key].expiry > now
                   THEN last_call' = Call("get", key,
                                          LET value == json_loads(redis_store[key].data)
                                          IN  IF value = Raised THEN None ELSE value)
                   ELSE last_call' = Call("get", key, None)
           ELSE IF key \in DOMAIN memory_cache
                THEN IF NotExpired(memory_cache[key], now)
                     THEN /\ memory_cache' = memory_cache
                          /\ last_call' = Call("get", key, memory_cache[key].data)
                     ELSE /\ memory_cache' = Del(memory_cache, key)
                          /\ last_call' = Call("get", key, None)
                ELSE /\ memory_cache' = memory_cache
                     /\ last_call' = Call("get", key, None)
        /\ UNCHANGED <<use_redis, redis_store, redis_up, now, written>>
        /\ UNCHANGED notCacheVars

\* CacheManager.delete(key)
CacheDelete ==
    \E key \in CacheKeys :
        /\ IF use_redis
           THEN /\ memory_cache' = memory_cache
                /\ IF redis_up
                   THEN /\ redis_store' = Del(redis_store, key)
                        /\ last_call' = Call("delete", key, TRUE)
                   ELSE /\ redis_store' = redis_store
                        /\ last_call' = Call("delete", key, FALSE)
           ELSE /\ memory_cache' = Del(memory_cache, key)
                /\ redis_store' = redis_store
                /\ last_call' = Call("delete", key, TRUE)
        /\ written' = Del(written, key)
        /\ UNCHANGED <<use_redis, redis_up, now>>
        /\ UNCHANGED notCacheVars

\* CacheManager.clear_all()
CacheClearAll ==
    /\ IF use_redis
       THEN /\ memory_cache' = memory_cache
            /\ IF redis_up
               THEN /\ redis_store' = NoKeys
                    /\ last_call' = Call("clear_all", "", TRUE)
               ELSE /\ redis_store' = redis_store
                    /\ last_call' = Call("clear_all", "", FALSE)
       ELSE /\ memory_cache' = NoKeys
            /\ redis_store' = redis_store
            /\ last_call' = Call("clear_all", "", TRUE)
    /\ written' = NoKeys
    /\ UNCHANGED <<use_redis, redis_up, now>>
    /\ UNCHANGED notCacheVars

\* A second passes.
Tick ==
    /\ now < MaxTime
    /\ now' = now + 1
    /\ UNCHANGED <<use_redis, memory_cache, redis_store, redis_up, last_call, written>>
    /\ UNCHANGED notCacheVars

\* The networked store stops answering.
RedisFails ==
    /\ redis_up
    /\ redis_up' = FALSE
    /\ UNCHANGED <<use_redis, memory_cache, redis_store, now, last_call, written>>
    /\ UNCHANGED notCacheVars

\* The networked store answers again.
RedisRecovers ==
    /\ ~redis_up
    /\ redis_up' = TRUE
    /\ UNCHANGED <<use_redis, memory_cache, redis_store, now, last_call, written>>
    /\ UNCHANGED notCacheVars

CacheNext ==
    \/ CacheSet
    \/ CacheGet
    \/ CacheDelete
    \/ CacheClearAll
    \/ Tick
    \/ RedisFails
    \/ RedisRecovers

-----------------------------------------------------------------------------
(***************************************************************************)
(* Several runs inside the in-process branch of CacheManager.get and set   *)
(* at once.  The code holds no lock: a step is one statement of get        *)
(* (lines 63-71) or the one store of set (lines 97-100).                   *)
(***************************************************************************)
Runs == {1, 2}

\* The runs work on one key.
RunKeys == {"k1"}

NoItem == [t |-> "no_item"]
NoCall == [t |-> "no_call"]

RunsStart ==
    /\ redis_up = FALSE
    /\ use_redis = FALSE
    /\ memory_cache = NoKeys
    /\ redis_store = NoKeys
    /\ now = 0
    /\ last_call = [op |-> "runs"]
    /\ written = NoKeys
    /\ run_pc = [r \in Runs |-> "idle"]
    /\ run_key = [r \in Runs |-> ""]
    /\ run_item = [r \in Runs |-> NoItem]
    /\ run_ret = [r \in Runs |-> NoCall]
    /\ run_deleted = [r \in Runs |-> NoItem]

RunsIdle ==
    /\ run_pc = <<>>
    /\ run_key = <<>>
    /\ run_item = <<>>
    /\ run_ret = <<>>
    /\ run_deleted = <<>>

\* The frame of a step of a run: the networked store is not in use.
RunFrame ==
    /\ UNCHANGED <<use_redis, redis_store, redis_up, now, last_call, written>>
    /\ UNCHANGED notRunVars

\* A run calls set(key, value, expire_seconds): one store into the map.
RunSet(r) ==
    /\ run_pc[r] = "idle"
    /\ \E key \in RunKeys, value \in CacheValues, expire_seconds \in TTLs :
          /\ memory_cache' = Put(memory_cache, key, MemoryEntry(value, now, expire_seconds))
          /\ run_key' = [run_key EXCEPT ![r] = key]
    /\ run_ret' = [run_ret EXCEPT ![r] = Bool(TRUE)]
    /\ run_item' = [run_item EXCEPT ![r] = NoItem]
    /\ run_deleted' = [run_deleted EXCEPT ![r] = NoItem]
    /\ UNCHANGED run_pc
    /\ RunFrame

\* A run calls get(key).
RunGetCall(r) ==
    /\ run_pc[r] = "idle"
    /\ \E key \in RunKeys : run_key' = [run_key EXCEPT ![r] = key]
    /\ run_pc' = [run_pc EXCEPT ![r] = "get_in"]
    /\ run_item' = [run_item EXCEPT ![r] = NoItem]
    /\ run_ret' = [run_ret EXCEPT ![r] = NoCall]
    /\ run_deleted' = [run_deleted EXCEPT ![r] = NoItem]
    /\ UNCHANGED memory_cache
    /\ RunFrame

\* `if key in self._memory_cache:` ... else `return None`
RunGetIn(r) ==
    /\ run_pc[r] = "get_in"
    /\ IF run_key[r] \in DOMAIN memory_cache
       THEN /\ run_pc' = [run_pc EXCEPT ![r] = "get_item"]
            /\ run_ret' = run_ret
       ELSE /\ run_pc' = [run_pc EXCEPT ![r] = "idle"]
            /\ run_ret' = [run_ret EXCEPT ![r] = None]
    /\ UNCHANGED <<memory_cache, run_key, run_item, run_deleted>>
    /\ RunFrame

\* `item = self._memory_cache[key]`; a KeyError ends in `except Exception: return None`
RunGetItem(r) ==
    /\ run_pc[r] = "get_item"
    /\ IF run_key[r] \in DOMAIN memory_cache
       THEN /\ run_item' = [run_item EXCEPT ![r] = memory_cache[run_key[r]]]
            /\ run_pc' = [run_pc EXCEPT ![r] = "get_expiry"]
            /\ run_ret' = run_ret
       ELSE /\ run_item' = run_item
            /\ run_pc' = [run_pc EXCEPT ![r] = "idle"]
            /\ run_ret' = [run_ret EXCEPT ![r] = None]
    /\ UNCHANGED <<memory_cache, run_key, run_deleted>>
    /\ RunFrame

\* `if item['expiry'] > time.time(): return item['data']`
RunGetExpiry(r) ==
    /\ run_pc[r] = "get_expiry"
    /\ IF NotExpired(run_item[r], now)
       THEN /\ run_pc' = [run_pc EXCEPT ![r] = "idle"]
            /\ run_ret' = [run_ret EXCEPT ![r] = run_item[r].data]
       ELSE /\ run_pc' = [run_pc EXCEPT ![r] = "get_del"]
            /\ run_ret' = run_ret
    /\ UNCHANGED <<memory_cache, run_key, run_item, run_deleted>>
    /\ RunFrame

\* `del self._memory_cache[key]` then `return None`; a KeyError ends in the
\* handler, which returns None as well.
RunGetDel(r) ==
    /\ run_pc[r] = "get_del"
    /\ IF run_key[r] \in DOMAIN memory_cache
       THEN /\ memory_cache' = Del(memory_cache, run_key[r])
            /\ run_deleted' = [run_deleted EXCEPT
                                  ![r] = [entry |-> memory_cache[run_key[r]], at |-> now]]
       ELSE /\ memory_cache' = memory_cache
            /\ run_deleted' = run_deleted
    /\ run_pc' = [run_pc EXCEPT ![r] = "idle"]
    /\ run_ret' = [run_ret EXCEPT ![r] = None]
    /\ UNCHANGED <<run_key, run_item>>
    /\ RunFrame

RunsNext ==
    \/ \E r \in Runs : RunSet(r)
    \/ \E r \in Runs : RunGetCall(r)
    \/ \E r \in Runs : RunGetIn(r)
    \/ \E r \in Runs : RunGetItem(r)
    \/ \E r \in Runs : RunGetExpiry(r)
    \/ \E r \in Runs : RunGetDel(r)
    \/ Tick

-----------------------------------------------------------------------------
(***************************************************************************)
(* The cache of the search agent: src/search_agent/services/cache.py,      *)
(* CacheManager, over the networked store it shares with the CacheManager  *)
(* of services/cache_manager.py.                                           *)
(***************************************************************************)
\* The values given to set: a dict, and scalars, which are stored as they are.
StoreValues == { Dict([r |-> List(<<Num(1)>>)]), Str(<<"a">>), Str(<<"5">>), Num(5) }

\* The text the networked store keeps for a scalar that set passes unserialized.
RawText(value) ==
    IF value.t = "num" THEN [t |-> "json", v |-> value]
    ELSE IF value.v # <<>> /\ AllDigits(value.v)
    THEN [t |-> "json", v |-> Num(DigitsValue(value.v))]
    ELSE [t |-> "text", v |-> value.v]

\* __init__ / _connect: self._client is None when the ping fails.  The other
\* CacheManager is constructed over the same store.
StoreStart ==
    /\ redis_up \in BOOLEAN
    /\ client = IF redis_up THEN "redis" ELSE "none"
    /\ use_redis = redis_up
    /\ memory_cache = NoKeys
    /\ redis_store = NoKeys
    /\ now = 0
    /\ last_call = [op |-> "none"]
    /\ written = NoKeys

StoreIdle == client = "idle"

\* is_connected()
is_connected == client # "none" /\ redis_up

\* What the networked store answers to GET key.
redis_get(key) ==
    IF key \in DOMAIN redis_store /\ redis_store[key].expiry > now
    THEN redis_store[key].data
    ELSE None

\* CacheManager.get(key, default) of cache.py, with default None
store_get(key) ==
    IF ~is_connected THEN None
    ELSE LET value == redis_get(key) IN
         IF value = None THEN None
         ELSE IF json_loads(value) = Raised
         THEN Str(value.v)             \* except json.JSONDecodeError: return value
         ELSE json_loads(value)

StoreGet ==
    \E key \in CacheKeys :
        /\ last_call' = Call("store_get", key, store_get(key))
        /\ UNCHANGED <<use_redis, memory_cache, redis_store, redis_up, now, written, client>>
        /\ UNCHANGED notStoreVars

\* CacheManager.set(key, value, expire_seconds) of cache.py
StoreSet ==
    \E key \in CacheKeys, value \in StoreValues, expire_seconds \in TTLs :
        /\ IF ~is_connected
           THEN /\ redis_store' = redis_store
                /\ last_call' = Call("store_set", key, FALSE)
           ELSE /\ redis_store' =
                       Put(redis_store, key,
                           [data |-> IF value.t \in {"str", "num", "bool"}
                                     THEN RawText(value) ELSE json_dumps(value),
                            expiry |-> now + expire_seconds])
                /\ last_call' = Call("store_set", key, TRUE)
        /\ UNCHANGED <<use_redis, memory_cache, redis_up, now, written, client>>
        /\ UNCHANGED notStoreVars

StoreNext ==
    \/ StoreSet
    \/ StoreGet
    \/ CacheGet
    \/ Tick
    \/ RedisFails
    \/ RedisRecovers

-----------------------------------------------------------------------------
(***************************************************************************)
(* The web resolver: agents/agente_google.py, AgenteGoogle.  One step per  *)
(* call that ends at once (memo hit, failed request), else one step per    *)
(* result item and one for the store and return.  An item is given by what *)
(* the patterns of _process_search_item find in its text.                  *)
(***************************************************************************)
NumItems == 3       \* 'num': 3

UpperCase == <<"A", "B", "C", "D", "E", "F", "G", "H", "I", "J", "K", "L", "M",
               "N", "O", "P", "Q", "R", "S", "T", "U", "V", "W", "X", "Y", "Z">>
LowerCase == <<"a", "b", "c", "d", "e", "f", "g", "h", "i", "j", "k", "l", "m",
               "n", "o", "p", "q", "r", "s", "t", "u", "v", "w", "x", "y", "z">>

\* str.lower()
LowerChar(c) ==
    IF \E i \in 1..Len(UpperCase) : UpperCase[i] = c
    THEN LowerCase[CHOOSE i \in 1..Len(UpperCase) : UpperCase[i] = c]
    ELSE c
Lower(s) == [i \in 1..Len(s) |-> LowerChar(s[i])]

\* cache_key = seller_nickname.lower().strip()
web_cache_key_exact(name) == name
web_cache_key(name) == Strip(Lower(name))

DecimalDigits == {"0", "1", "2", "3", "4", "5", "6", "7", "8", "9"}
IsDecimalDigit(c) == c \in DecimalDigits

\* re.sub(r'\D', '', raw_phone)
OnlyDigits(s) == SelectSeq(s, IsDecimalDigit)

\* s[n:]
From(s, n) == SubSeq(s, n + 1, Len(s))

\* _extract_phone from raw_phone = phone_match.group(0) on: contact_info["phone"]
format_phone(raw_phone) ==
    LET d0 == OnlyDigits(raw_phone)
        d1 == IF StartsWith(d0, <<"0">>) THEN From(d0, 1) ELSE d0
        d2 == IF StartsWith(d1, <<"1", "5">>) THEN From(d1, 2) ELSE d1
        d3 == IF /\ Len(d2) = 8
                 /\ \/ StartsWith(raw_phone, <<"1", "1">>)
                    \/ StartsWith(raw_phone, <<"0", "1", "1">>)
                    \/ /\ StartsWith(raw_phone, <<"+", "5", "4", "1", "1">>)
                       /\ ~StartsWith(raw_phone, <<"+", "5", "4", "9", "1", "1">>)
              THEN <<"9">> \o d2 ELSE d2
        d4 == IF ~StartsWith(d3, <<"5", "4">>)
              THEN IF Len(d3) = 10 /\ StartsWith(d3, <<"1", "1">>)
                   THEN <<"5", "4", "9">> \o d3
                   ELSE IF Len(d3) >= 8 THEN <<"5", "4", "9">> \o d3 ELSE d3
              ELSE d3
    IN  Str(<<"+">> \o d4)

\* What the patterns find in one item: the phone match and the email match in
\* its text as received, and its link.
NoMatch == [t |-> "no_match"]
Item(phone, email, link) == [phone |-> phone, email |-> email, link |-> link]
Link(facebook, path) == [t |-> "link", facebook |-> facebook, v |-> path]

PhoneNoIndicator == <<"+", "5", "4", " ", "1", "1", " ", "1", "2", "3", "4", "-", "5", "6", "7", "8">>
PhoneTrunk == <<"0", "1", "1", " ", "4", "3", "2", "1", "-", "5", "6", "7", "8">>
EmailOne == <<"c", "@", "t", ".", "c", "o">>
EmailTwo == <<"V", "@", "t", ".", "c", "o">>

WebItems ==
    { Item(Str(PhoneNoIndicator), Str(EmailOne), NoMatch),
      Item(NoMatch, NoMatch, Link(TRUE, <<"f", "b", "/", "A">>)),
      Item(Str(PhoneTrunk), Str(EmailTwo), Link(TRUE, <<"f", "b", "/", "b">>)),
      Item(NoMatch, NoMatch, Link(FALSE, <<"i", "g">>)) }

RECURSIVE ItemLists(_)
ItemLists(n) ==
    IF n = 0 THEN {<<>>}
    ELSE ItemLists(n - 1) \cup { Append(l, i) : l \in {m \in ItemLists(n - 1) : Len(m) = n - 1},
                                                 i \in WebItems }

\* The answers to the request: api_client.get or response.json() raising, or
\* the items of the response.
WebResponses == {Raised} \cup { List(l) : l \in ItemLists(NumItems) }

SellerNicknames == { <<"J", "u">>, <<" ", "j", "u", " ">>, <<"A", "n">> }

\* contact_info = {"phone": None, "email": None, "facebook_url": None}
EmptyContactInfo == [phone |-> None, email |-> None, facebook_url |-> None]

\* _process_search_item(item, contact_info): contact_info afterwards
process_search_item(item, info) ==
    [phone |-> IF ~Truthy(info.phone) /\ item.phone # NoMatch
               THEN format_phone(item.phone.v) ELSE info.phone,
     email |-> IF ~Truthy(info.email) /\ item.email # NoMatch
               THEN Str(Lower(item.email.v)) ELSE info.email,
     facebook_url |-> IF ~Truthy(info.facebook_url) /\ item.link # NoMatch /\ item.link.facebook
                      THEN Str(Lower(item.link.v)) ELSE info.facebook_url]

\* A scan that never ends early.
NeverAllFound(info) == FALSE

\* all(contact_info.values())
AllFound(info) == Truthy(info.phone) /\ Truthy(info.email) /\ Truthy(info.facebook_url)

WebStart ==
    /\ contact_cache = NoKeys
    /\ web_pc = "idle"
    /\ web_requests = 0
    /\ seller_nickname = <<>>
    /\ search_items = <<>>
    /\ web_index = 0
    /\ contact_info = EmptyContactInfo
    /\ web_last = [name |-> <<>>, issued |-> FALSE, ret |-> NoCall, prior |-> NoKeys]
    /\ web_done = NoKeys

WebIdle ==
    /\ contact_cache = NoKeys
    /\ web_pc = "off"
    /\ web_requests = 0
    /\ seller_nickname = <<>>
    /\ search_items = <<>>
    /\ web_index = 0
    /\ contact_info = EmptyContactInfo
    /\ web_last = NoCall
    /\ web_done = NoKeys

\* A call completes: what it returned, for the name it was given.
Completed(name, ret, ok) == Put(web_done, name, [ret |-> ret, ok |-> ok])

\* search_seller_contacts(name) answered from self.contact_cache (lines 69-72).
WebMemoHit ==
    /\ web_pc = "idle"
    /\ \E name \in SellerNicknames :
          /\ web_cache_key(name) \in DOMAIN contact_cache
          /\ web_last' = [name |-> name, issued |-> FALSE,
                          ret |-> contact_cache[web_cache_key(name)], prior |-> web_done]
          /\ seller_nickname' = name
    /\ UNCHANGED <<contact_cache, web_pc, web_requests, search_items, web_index,
                   contact_info, web_done>>
    /\ UNCHANGED notWebVars

\* search_seller_contacts(name), not memoized: the request is issued
\* (lines 74-102); if it raises, the handler returns the empty contact_info
\* (lines 117-121).
WebRequest ==
    /\ web_pc = "idle"
    /\ web_requests < MaxWebRequests
    /\ \E name \in SellerNicknames, response \in WebResponses :
          /\ web_cache_key(name) \notin DOMAIN contact_cache
          /\ seller_nickname' = name
          /\ web_requests' = web_requests + 1
          /\ contact_info' = EmptyContactInfo
          /\ web_index' = 0
          /\ IF response = Raised
             THEN /\ web_pc' = "idle"
                  /\ search_items' = <<>>
                  /\ web_last' = [name |-> name, issued |-> TRUE,
                                  ret |-> EmptyContactInfo, prior |-> web_done]
                  /\ web_done' = Completed(name, EmptyContactInfo, FALSE)
             ELSE /\ web_pc' = IF response.v = <<>> THEN "store" ELSE "scan"
                  /\ search_items' = response.v
                  /\ web_last' = [name |-> name, issued |-> TRUE,
                                  ret |-> NoCall, prior |-> web_done]
                  /\ web_done' = web_done
    /\ UNCHANGED contact_cache
    /\ UNCHANGED notWebVars

\* One iteration of `for item in search_items` (lines 105-110).
WebScan ==
    /\ web_pc = "scan"
    /\ LET info == process_search_item(search_items[web_index + 1], contact_info) IN
          /\ contact_info' = info
          /\ web_index' = web_index + 1
          /\ web_pc' = IF AllFound(info) \/ web_index + 1 = Len(search_items)
                       THEN "store" ELSE "scan"
    /\ UNCHANGED <<contact_cache, web_requests, seller_nickname, search_items,
                   web_last, web_done>>
    /\ UNCHANGED notWebVars

\* self.contact_cache[cache_key] = contact_info; return contact_info
WebStore ==
    /\ web_pc = "store"
    /\ contact_cache' = Put(contact_cache, web_cache_key(seller_nickname), contact_info)
    /\ web_last' = [web_last EXCEPT !.ret = contact_info]
    /\ web_done' = Completed(seller_nickname, contact_info, TRUE)
    /\ web_pc' = "idle"
    /\ search_items' = <<>>
    /\ web_index' = 0
    /\ contact_info' = EmptyContactInfo
    /\ UNCHANGED <<web_requests, seller_nickname>>
    /\ UNCHANGED notWebVars

WebNext == WebMemoHit \/ WebRequest \/ WebScan \/ WebStore

-----------------------------------------------------------------------------
(***************************************************************************)
(* The places resolver: agents/agente_gmaps.py, AgenteGMaps.  Its cache is *)
(* a CacheManager on the in-process store.  The two providers are an       *)
(* environment: each attempt on the primary one and the request to the     *)
(* secondary one fails or answers with a JSON value.                       *)
(***************************************************************************)
MAX_RETRIES == 2       \* MAX_RETRIES = 2
TopPlaces == 3         \* results[:3]
DaySeconds == 86400    \* ttl=86400

\* A str held as one piece.
Text(s) == Str(<<s>>)

\* One place as the primary provider and as the secondary provider give it.
RapidPlace(i) ==
    Dict([id |-> Text(ToString(i)), phone |-> Text("011 4321-5678"), name |-> Text("Ju SA"),
          address |-> Text("Av 1"), reviews |-> Num(i), rating |-> Num(4),
          website |-> Text("ju.com"), link |-> Text("maps/ju")])
GooglePlace(i) ==
    Dict([place_id |-> Text(ToString(i)), name |-> Text("Ju SA"),
          formatted_address |-> Text("Av 1"), user_ratings_total |-> Num(i),
          rating |-> Num(4)])

Failure(kind) == [t |-> "failure", kind |-> kind]

\* One attempt on the primary provider: requests.get or raise_for_status
\* raises, the body is not JSON, or the body is a JSON value.
PrimaryAnswers ==
    {Failure("RequestException"), Failure("JSONDecodeError")}
    \cup { Dict([results |-> List([i \in 1..n |-> RapidPlace(i)])]) : n \in {0, 1, MaxPlaces} }
    \cup { Dict([message |-> Text("quota")]), List(<<>>) }

\* The request to the secondary provider: anything raises, or a JSON object.
SecondaryAnswers ==
    {Failure("RequestException")}
    \cup { Dict([status |-> Text("OK"), results |-> List([i \in 1..n |-> GooglePlace(i)])]) :
             n \in {0, 1, MaxPlaces} }
    \cup { Dict([status |-> Text("ZERO_RESULTS"), results |-> List(<<>>)]),
           Dict([status |-> Text("REQUEST_DENIED")]) }

\* s[:n]
Take(l, n) == SubSeq(l, 1, IF Len(l) < n THEN Len(l) ELSE n)

NoResults(message) == Dict([status |-> Text("no_results"), message |-> Text(message)])
ErrorResult(message) == Dict([status |-> Text("error"), message |-> Text(message)])

\* _format_response(api_response); Raised: api_response has no .get
format_response(body) ==
    IF body.t # "dict" THEN Raised
    ELSE LET results == Get(body, "results", List(<<>>)) IN
         IF ~Truthy(results) \/ results.t # "list"
         THEN NoResults("No se encontraron resultados.")
         ELSE LET top == Take(results.v, TopPlaces)
                  formatted_data ==
                      [i \in 1..Len(top) |->
                          Dict([business_id |-> Get(top[i], "id", Text("")),
                                phone_number |-> Get(top[i], "phone", Text("")),
                                name |-> Get(top[i], "name", Text("")),
                                full_address |-> Get(top[i], "address", Text("")),
                                review_count |-> Get(top[i], "reviews", Num(0)),
                                rating |-> Get(top[i], "rating", Num(0)),
                                website |-> Get(top[i], "website", Text("")),
                                place_link |-> Get(top[i], "link", Text(""))])]
              IN  Dict([status |-> IF formatted_data # <<>> THEN Text("ok")
                                   ELSE Text("no_results"),
                        data |-> List(formatted_data)])

\* _format_google_places_response(api_response): after the loop over
\* results[:3] the function ends without a return statement.
format_google_places_response(body) ==
    IF Get(body, "status", Text("")) # Text("OK")
    THEN NoResults("No se encontraron resultados. Status")
    ELSE IF ~Truthy(Get(body, "results", List(<<>>)))
    THEN NoResults("No se encontraron resultados.")
    ELSE None

\* _try_rapidapi_maps_data(query): `attempts` are the answers the provider
\* would give to each attempt.  The result and the number of requests made.
RECURSIVE RapidAttempt(_, _)
RapidAttempt(attempts, i) ==
    IF i > MAX_RETRIES
    THEN [ret |-> ErrorResult("No se pudo conectar con RapidAPI Maps Data"),
          made |-> MAX_RETRIES]
    ELSE IF attempts[i].t = "failure"
    THEN RapidAttempt(attempts, i + 1)
    ELSE [ret |-> format_response(attempts[i]), made |-> i]
try_rapidapi_maps_data(attempts) == RapidAttempt(attempts, 1)

\* _try_google_places_direct(query, api_key)
try_google_places_direct(answer) ==
    IF answer.t = "failure" \/ answer.t # "dict"
    THEN ErrorResult("Error en fallback")
    ELSE format_google_places_response(answer)

\* What a call on the cache gives: its return value (Raised: it raised) and
\* the in-process store afterwards.
CacheResult(ret, cache) == [ret |-> ret, cache |-> cache]

\* self.cache.get(key), CacheManager.get on the in-process store
cache_get(cache, key, time) ==
    IF key \in DOMAIN cache
    THEN IF NotExpired(cache[key], time)
         THEN CacheResult(cache[key].data, cache)
         ELSE CacheResult(None, Del(cache, key))
    ELSE CacheResult(None, cache)

\* A set that takes its lifetime under any keyword.
cache_set_any_keyword(cache, key, value, keyword, seconds, time) ==
    CacheResult(Bool(TRUE), Put(cache, key, MemoryEntry(value, time, seconds)))

\* self.cache.set(key, value, <keyword>=seconds), CacheManager.set(self, key,
\* value, expire_seconds=86400): a keyword the signature lacks is a TypeError.
cache_set(cache, key, value, keyword, seconds, time) ==
    IF keyword # "expire_seconds"
    THEN CacheResult(Raised, cache)
    ELSE CacheResult(Bool(TRUE), Put(cache, key, MemoryEntry(value, time, seconds)))

\* The requests a call made, in order.
Requests(primary, secondary, query) ==
    [i \in 1..(primary + secondary) |->
        [to |-> IF i <= primary THEN "primary" ELSE "secondary", query |-> query]]

\* What a call gives: its return value (Raised: it raised), the requests it
\* made and the in-process store afterwards.
Outcome(ret, requests_made, cache) == [ret |-> ret, requests |-> requests_made, cache |-> cache]

\* The query both providers get: _format_search_query(_clean_seller_name(name)),
\* for names without a shop suffix or a special character.
search_query(seller_name) == Strip(seller_name)

\* find_business(seller_name), lines 128-161: the try block and its handler.
find_business_try(has_cache, fallback_key, cache, time, cache_key, query, attempts, answer) ==
    LET first == try_rapidapi_maps_data(attempts)
        result == first.ret
        failed(n, m) == Outcome(ErrorResult("Error buscando negocio"), Requests(n, m, query), cache)
    IN  IF result = Raised THEN failed(first.made, 0)
        ELSE IF Get(result, "status", None) = Text("ok") /\ Truthy(Get(result, "data", None))
        THEN IF has_cache
             THEN LET put == cache_set(cache, cache_key, json_dumps(result), "ttl", DaySeconds, time)
                  IN  IF put.ret = Raised THEN failed(first.made, 0)
                      ELSE Outcome(result, Requests(first.made, 0, query), put.cache)
             ELSE Outcome(result, Requests(first.made, 0, query), cache)
        ELSE IF fallback_key
        THEN LET fallback_result == try_google_places_direct(answer) IN
             IF fallback_result = None          \* None.get: AttributeError
             THEN failed(first.made, 1)
             ELSE IF Get(fallback_result, "status", None) = Text("ok") /\ has_cache
             THEN LET put == cache_set(cache, cache_key, json_dumps(fallback_result),
                                       "ttl", DaySeconds, time)
                  IN  IF put.ret = Raised THEN failed(first.made, 1)
                      ELSE Outcome(fallback_result, Requests(first.made, 1, query), put.cache)
             ELSE Outcome(fallback_result, Requests(first.made, 1, query), cache)
        ELSE Outcome(result, Requests(first.made, 0, query), cache)

\* find_business(seller_name)
find_business(has_cache, fallback_key, cache, time, seller_name, attempts, answer) ==
    IF seller_name = <<>>
    THEN Outcome(ErrorResult("Nombre de vendedor no proporcionado"), <<>>, cache)
    ELSE LET cache_key == <<"gmaps_business_">> \o seller_name
             got == IF has_cache THEN cache_get(cache, cache_key, time)
                    ELSE CacheResult(None, cache)
         IN  IF Truthy(got.ret)
             THEN Outcome(json_loads(got.ret), <<>>, got.cache)
             ELSE find_business_try(has_cache, fallback_key, got.cache, time, cache_key,
                                    search_query(seller_name), attempts, answer)

\* 'error' in resultados
HasError(resultados) == resultados.t = "dict" /\ "error" \in DOMAIN resultados.v

\* The dict search_business returns from its handler.
SearchError ==
    Dict([error |-> Bool(TRUE), message |-> Text("Error al buscar el negocio"),
          source |-> Text("AgenteGMaps"), results |-> List(<<>>)])

\* The one value of a singleton.
Only(S) == CHOOSE x \in S : TRUE

\* search_business after `resultados = self.find_business(query)`, lines 399-411
search_business_found(has_cache, cache_key, time, query, use_fallback, answer, found) ==
    IF found.ret = Raised THEN Outcome(SearchError, found.requests, found.cache)
    ELSE LET again == (~Truthy(found.ret) \/ HasError(found.ret)) /\ use_fallback
             resultados == IF again THEN try_google_places_direct(answer) ELSE found.ret
             made == IF again THEN found.requests \o Requests(0, 1, query)
                     ELSE found.requests
         IN  IF Truthy(resultados) /\ ~HasError(resultados) /\ has_cache
             THEN LET put == cache_set(found.cache, cache_key, resultados,
                                       "ttl", DaySeconds, time)
                  IN  IF put.ret = Raised
                      THEN Outcome(SearchError, made, found.cache)
                      ELSE Outcome(resultados, made, put.cache)
             ELSE Outcome(resultados, made, found.cache)

\* search_business(query, use_fallback)
search_business(has_cache, fallback_key, cache, time, query, use_fallback, attempts, answer) ==
    LET cache_key == <<"business_search:">> \o Strip(Lower(query))
        got == IF has_cache THEN cache_get(cache, cache_key, time)
               ELSE CacheResult(None, cache)
    IN  IF Truthy(got.ret) THEN Outcome(got.ret, <<>>, got.cache)
        ELSE Only({ search_business_found(has_cache, cache_key, time, query, use_fallback,
                                          answer, found) :
                      found \in {find_business(has_cache, fallback_key, got.cache, time,
                                               query, attempts, answer)} })

PlaceNames == { <<>>, <<"J", "u">> }

\* The provider gave at least one place in the answer the call used.
GaveResults(answer) ==
    /\ answer.t = "dict"
    /\ Truthy(Get(answer, "results", List(<<>>)))
    /\ Get(answer, "results", List(<<>>)).t = "list"

\* The first attempt the primary provider answered with JSON, if any.
PrimaryUsed(attempts) ==
    IF \E i \in 1..MAX_RETRIES : attempts[i].t # "failure"
    THEN attempts[CHOOSE i \in 1..MAX_RETRIES :
                     attempts[i].t # "failure" /\ \A k \in 1..(i - 1) : attempts[k].t = "failure"]
    ELSE Failure("RequestException")

\* AgenteGMaps.__init__, with or without a cache and a key for the fallback.
GmapsStart ==
    /\ gmaps_cache \in BOOLEAN
    /\ gmaps_fallback_key \in BOOLEAN
    /\ gmaps_last = [fn |-> "none"]
    /\ gmaps_prior = {}
    /\ gmaps_failed = {}
    /\ use_redis = FALSE
    /\ redis_up = FALSE
    /\ memory_cache = NoKeys
    /\ redis_store = NoKeys
    /\ now = 0
    /\ last_call = [op |-> "gmaps"]
    /\ written = NoKeys

GmapsIdle ==
    /\ gmaps_cache = "off"
    /\ gmaps_fallback_key = "off"
    /\ gmaps_last = NoCall
    /\ gmaps_prior = {}
    /\ gmaps_failed = {}

\* The call as its caller and the providers saw it.
GmapsCall(fn, name, attempts, answer, out) ==
    [fn |-> fn, name |-> name, attempts |-> attempts, answer |-> answer,
     ret |-> out.ret, requests |-> out.requests, at |-> now,
     again |-> name \in gmaps_prior, failed_before |-> name \in gmaps_failed]

\* The call asked the secondary provider.
AskedSecondary(requests_made) ==
    \E i \in 1..Len(requests_made) : requests_made[i].to = "secondary"

\* A provider the call asked gave places.
ProviderGavePlaces(attempts, answer, out) ==
    /\ out.requests # <<>>
    /\ \/ GaveResults(PrimaryUsed(attempts))
       \/ /\ AskedSecondary(out.requests)
          /\ GaveResults(answer)
          /\ Get(answer, "status", None) = Text("OK")

\* The history: the names a provider gave places for.
Looked(name, attempts, answer, out) ==
    IF ProviderGavePlaces(attempts, answer, out)
    THEN gmaps_prior \cup {name}
    ELSE gmaps_prior

\* The history: the names the providers were asked for and gave no place.
LookedInVain(name, attempts, answer, out) ==
    IF out.requests # <<>> /\ ~ProviderGavePlaces(attempts, answer, out)
    THEN gmaps_failed \cup {name}
    ELSE gmaps_failed

\* The answers to the attempts on the primary provider: a second attempt is
\* made only after a failed first one.
PrimaryAttempts ==
    { <<first, second>> : first \in {a \in PrimaryAnswers : a.t = "failure"},
                          second \in PrimaryAnswers }
    \cup { <<first, first>> : first \in {a \in PrimaryAnswers : a.t # "failure"} }

\* A provider that is not asked gives no answer: it is recorded as a failure.
NotAsked == Failure("RequestException")
OnlyAsked(attempts, answer, out) ==
    /\ out.requests = <<>> => attempts = <<NotAsked, NotAsked>>
    /\ ~AskedSecondary(out.requests) => answer = NotAsked

\* One call of find_business.
GmapsFind ==
    /\ gmaps_last.fn = "none"
    /\ \E name \in PlaceNames, attempts \in PrimaryAttempts, answer \in SecondaryAnswers :
        \E out \in {find_business(gmaps_cache, gmaps_fallback_key, memory_cache, now,
                                  name, attempts, answer)} :
            /\ OnlyAsked(attempts, answer, out)
            /\ gmaps_last' = GmapsCall("find_business", name, attempts, answer, out)
            /\ gmaps_prior' = Looked(name, attempts, answer, out)
            /\ gmaps_failed' = LookedInVain(name, attempts, answer, out)
            /\ memory_cache' = out.cache
            /\ UNCHANGED <<gmaps_cache, gmaps_fallback_key>>
            /\ UNCHANGED <<use_redis, redis_store, redis_up, now, last_call, written>>
            /\ UNCHANGED notGmapsVars

\* One call of search_business.
GmapsSearch ==
    /\ gmaps_last.fn = "none"
    /\ \E name \in PlaceNames \ {<<>>}, use_fallback \in BOOLEAN,
       attempts \in PrimaryAttempts, answer \in SecondaryAnswers :
        \E out \in {search_business(gmaps_cache, gmaps_fallback_key, memory_cache, now,
                                    name, use_fallback, attempts, answer)} :
            /\ OnlyAsked(attempts, answer, out)
            /\ gmaps_last' = GmapsCall("search_business", name, attempts, answer, out)
            /\ gmaps_prior' = Looked(name, attempts, answer, out)
            /\ gmaps_failed' = LookedInVain(name, attempts, answer, out)
            /\ memory_cache' = out.cache
            /\ UNCHANGED <<gmaps_cache, gmaps_fallback_key>>
            /\ UNCHANGED <<use_redis, redis_store, redis_up, now, last_call, written>>
            /\ UNCHANGED notGmapsVars

\* The caller takes the result.
GmapsReturn ==
    /\ gmaps_last.fn # "none"
    /\ gmaps_last' = [fn |-> "none"]
    /\ UNCHANGED <<gmaps_cache, gmaps_fallback_key, gmaps_prior, gmaps_failed>>
    /\ UNCHANGED cacheVars
    /\ UNCHANGED notGmapsVars

GmapsNext == GmapsFind \/ GmapsSearch \/ GmapsReturn \/ Tick

-----------------------------------------------------------------------------
(***************************************************************************)
(* The contact facade: agents/agente_contacts.py, AgenteContacts.  The two *)
(* sub-resolvers are an environment: each call on one raises or returns.   *)
(***************************************************************************)
SearchStrategies == {"all", "web", "location", "maps"}

\* What agente_web.search_seller_contacts gives.
WebAnswers ==
    { Raised,
      Dict(EmptyContactInfo),
      Dict([phone |-> format_phone(PhoneTrunk), email |-> None, facebook_url |-> None]),
      Dict([phone |-> format_phone(PhoneTrunk), email |-> Str(EmailOne),
            facebook_url |-> Str(<<"f", "b", "/", "a">>)]) }

\* What agente_locations.search_business gives.
LocationAnswers ==
    { Raised,
      SearchError,
      format_response(Dict([results |-> List(<<RapidPlace(1)>>)])) }

\* format_results, and what self.formatter gives if it is called.
Formatting ==
    { [format_results |-> FALSE, formatted |-> Raised],
      [format_results |-> TRUE, formatted |-> Raised],
      [format_results |-> TRUE, formatted |-> Text("cards")] }

ContactNames == { <<"J", "u">>, <<" ", "j", "u", " ">> }

\* A sub-resolver that was not called, or whose exception was swallowed.
Skipped == [t |-> "skipped"]

\* A sub-resolver called without a handler of its own.
unguarded(answer) == answer

\* try: ... = <sub-resolver call> except Exception: log (lines 134-141, 145-152)
guarded(answer) == IF answer = Raised THEN Skipped ELSE answer

\* results as get_contact_info starts with
InitialResults ==
    Dict([status |-> Text("error"), message |-> Text("No search performed"),
          source |-> Text("AgenteContacts"), data |-> Dict(NoKeys)])

\* The handler of get_contact_info: results["message"] = error_msg; return results
contacts_handler(results) == With(results, "message", Text("Error en get_contact_info"))

\* What get_contact_info gives: its return value and the sub-resolvers it called.
Contacts(ret, queried) == [ret |-> ret, queried |-> queried]

\* get_contact_info(seller_name, search_strategy, format_results)
get_contact_info(web_set, formatter_set, search_strategy, format_results, web_answer, location_answer, formatted) ==
    IF search_strategy \notin {"all", "web", "location"}
    THEN Contacts(contacts_handler(InitialResults), <<>>)
    ELSE
    LET ask_web == search_strategy \in {"all", "web"} /\ web_set
        ask_locations == search_strategy \in {"all", "location"}
        web_results == IF ask_web THEN guarded(web_answer) ELSE Skipped
        after_web ==
            IF web_results \in {Skipped, Raised} THEN InitialResults
            ELSE With(With(InitialResults, "data", Dict([web |-> web_results])),
                      "status", Text("partial_success"))
        web_queried == IF ask_web THEN <<"web">> ELSE <<>>
    IN  IF web_results = Raised
        THEN Contacts(contacts_handler(after_web), web_queried)
        ELSE
        LET location_results == IF ask_locations THEN guarded(location_answer) ELSE Skipped
            after_locations ==
                IF location_results \in {Skipped, Raised} THEN after_web
                ELSE With(With(after_web, "data",
                               With(after_web.v.data, "locations", location_results)),
                          "status",
                          IF after_web.v.status # Text("partial_success")
                          THEN Text("success") ELSE Text("partial_success"))
            queried == web_queried \o (IF ask_locations THEN <<"locations">> ELSE <<>>)
        IN  IF location_results = Raised
            THEN Contacts(contacts_handler(after_locations), queried)
            ELSE IF ~Truthy(after_locations.v.data)
            THEN Contacts(With(after_locations, "message",
                               Text("No se encontraron resultados")), queried)
            ELSE LET completed == With(after_locations, "message", Text("Búsqueda completada"))
                 IN  IF format_results /\ formatter_set /\ formatted # Raised
                     THEN Contacts(With(completed, "formatted", formatted), queried)
                     ELSE Contacts(completed, queried)

\* A call of a sub-resolver: its positional argument and its keyword arguments
ResolverCall(resolver, seller_name, kwargs) ==
    [resolver |-> resolver, seller_name |-> seller_name, kwargs |-> kwargs]

\* Calls that leave the fallback of the places resolver to its default.
calls_without_keywords(seller_name, queried) ==
    [i \in 1..Len(queried) |-> ResolverCall(queried[i], seller_name, {})]

\* The calls of lines 135 and 146, of the sub-resolvers that were queried:
\* search_seller_contacts(seller_name), search_business(seller_name, use_fallback=True)
sub_resolver_calls(seller_name, queried) ==
    [i \in 1..Len(queried) |->
        IF queried[i] = "web"
        THEN ResolverCall("web", seller_name, {})
        ELSE ResolverCall("locations", seller_name, {<<"use_fallback", TRUE>>})]

\* AgenteContacts.__init__: agente_web only with a CSE id, the formatter only
\* if its import succeeds.
ContactsStart ==
    /\ agente_web \in BOOLEAN
    /\ has_formatter \in BOOLEAN
    /\ contacts_last = [fn |-> "none"]
    /\ product_contact = NoCall

ContactsIdle ==
    /\ agente_web = "off"
    /\ has_formatter = "off"
    /\ contacts_last = NoCall
    /\ product_contact = NoCall

\* One call of get_contact_info.
GetContactInfo ==
    \E seller_name \in ContactNames, search_strategy \in SearchStrategies,
       formatting \in Formatting, web_answer \in WebAnswers,
       location_answer \in LocationAnswers :
        \E out \in {get_contact_info(agente_web, has_formatter, search_strategy,
                                     formatting.format_results, web_answer,
                                     location_answer, formatting.formatted)} :
            /\ contacts_last' =
                  [fn |-> "get_contact_info", seller_name |-> seller_name,
                   search_strategy |-> search_strategy, web_answer |-> web_answer,
                   location_answer |-> location_answer,
                   ret |-> out.ret, queried |-> out.queried,
                   calls |-> sub_resolver_calls(seller_name, out.queried)]
            /\ product_contact' = NoCall
            /\ UNCHANGED <<agente_web, has_formatter>>
            /\ UNCHANGED notContactsVars

\* demo/orquestador_fixed.py, lines 187-208: the contact record the
\* orchestrator makes of the result of the facade.  Only a result with
\* status "ok" is looked into, and its data is indexed as a list: of a dict
\* the index 0 raises KeyError, which the handler turns into {}.
seller_contact_info(contact_result) ==
    LET data == Get(contact_result, "data", None) IN
    IF Get(contact_result, "status", None) # Text("ok") THEN Dict(NoKeys)
    ELSE IF ~Truthy(data) THEN Dict(NoKeys)
    ELSE IF data.t # "list" THEN Dict(NoKeys)
    ELSE Dict([phone |-> Get(data.v[1], "phone_number", None),
               address |-> Get(data.v[1], "full_address", None),
               website |-> Get(data.v[1], "website", None),
               email |-> Get(data.v[1], "email", None),
               place_link |-> Get(data.v[1], "place_link", None)])

\* The caller of get_contact_info(seller_name, search_strategy="all",
\* format_results=True) attaches the contact record to its product (lines
\* 176-218 of demo/orquestador_fixed.py).
AttachContact ==
    /\ contacts_last.fn = "get_contact_info"
    /\ contacts_last.search_strategy = "all"
    /\ product_contact = NoCall
    /\ product_contact' = seller_contact_info(contacts_last.ret)
    /\ UNCHANGED <<agente_web, has_formatter, contacts_last>>
    /\ UNCHANGED notContactsVars

ContactsNext == GetContactInfo \/ AttachContact

-----------------------------------------------------------------------------
(***************************************************************************)
(* The filter: search_agent/processing/filtering.py, AgenteFiltro.  A call *)
(* of filter_listings is one step; its caller takes the result in another. *)
(***************************************************************************)
\* p in s
Contains(s, p) ==
    \E i \in 0..(Len(s) - Len(p)) : SubSeq(s, i + 1, i + Len(p)) = p

Infinity == [t |-> "inf"]      \* float('inf')

\* a < b, b a number or float('inf')
LessThan(a, b) == IF b = Infinity THEN TRUE ELSE a.v < b.v

Sam == <<"s", "a", "m">>
SAM == <<"S", "A", "M">>
SamCapital == <<"S", "a", "m">>
Ap == <<"a", "p">>
New == Str(<<"new">>)
Used == Str(<<"used">>)
Broken == Str(<<"broken">>)

Seller(nickname) == Dict([nickname |-> Str(nickname)])
Listing(seller, price, condition) ==
    Dict([seller |-> seller, price |-> Num(price), condition |-> condition])

\* The listings a call is given.
FilterListings ==
    { Listing(Seller(SamCapital \o <<" ", "X">>), 12, New),
      Listing(Seller(SAM), 12, Used),
      Listing(Seller(Ap), 12, New),
      Listing(Seller(Ap), 5, New),
      Listing(Seller(Ap), 30, New),
      Listing(Seller(Ap), 12, Broken),
      Listing(Dict([nickname |-> Str(<<>>), eshop |-> Dict([nick_name |-> Str(Sam)])]), 12, New),
      Listing(Seller(<<>>), 12, New),
      Dict(NoKeys) }

RECURSIVE ListingLists(_)
ListingLists(n) ==
    IF n = 0 THEN {<<>>}
    ELSE ListingLists(n - 1)
         \cup { Append(l, i) : l \in {m \in ListingLists(n - 1) : Len(m) = n - 1},
                               i \in FilterListings }

\* filters.excluded_brands as configured
BrandLists == { <<>>, <<Sam>>, <<SamCapital>>, <<<<"l", "g">>, Sam>> }

\* filters.min_price, filters.max_price, filters.allowed_conditions: the
\* defaults of filter_listings, or configured values
FilterConfigs ==
    { [min_price |-> lo, max_price |-> hi, allowed_conditions |-> allowed] :
        lo \in {Num(0), Num(10)}, hi \in {Infinity, Num(20)},
        allowed \in {{New, Used, NotSpecified}, {New}} }

\* The nickname filter_listings compares: seller.nickname, else eshop.nick_name
seller_nickname_raw(item) ==
    LET seller == Get(item, "seller", Dict(NoKeys))
        nickname == Get(seller, "nickname", Str(<<>>))
    IN  IF ~Truthy(nickname) /\ Truthy(Get(seller, "eshop", None))
        THEN Get(Get(seller, "eshop", Dict(NoKeys)), "nick_name", Str(<<>>)).v
        ELSE nickname.v

\* The loop of app/main.py, filter_and_rank_products (line 32), which also
\* skips a listing without a nickname.
passes_filter_named(item, brands, config) ==
    LET price == Get(item, "price", Num(0))
        condition == Get(item, "condition", NotSpecified)
        seller_nickname_lower == Lower(seller_nickname_raw(item))
    IN  /\ ~(LessThan(price, config.min_price)
             \/ (config.max_price # Infinity /\ price.v > config.max_price.v))
        /\ condition \in config.allowed_conditions
        /\ seller_nickname_lower # <<>>
        /\ ~\E i \in 1..Len(brands) : Contains(seller_nickname_lower, brands[i])

\* One iteration of the loop of filter_listings: the listing is kept.
passes_filter(item, brands, config) ==
    LET price == Get(item, "price", Num(0))
        condition == Get(item, "condition", NotSpecified)
        seller_nickname_lower == Lower(seller_nickname_raw(item))
    IN  /\ ~(LessThan(price, config.min_price)
             \/ (config.max_price # Infinity /\ price.v > config.max_price.v))
        /\ condition \in config.allowed_conditions
        /\ ~(/\ seller_nickname_lower # <<>>
             /\ \E i \in 1..Len(brands) :
                   Contains(seller_nickname_lower, brands[i]))

\* filter_listings(listings)
filter_listings(items, brands, config) ==
    LET Passes(item) == passes_filter(item, brands, config)
    IN  SelectSeq(items, Passes)

\* A loop that deletes from the list it was given what it does not keep.
listings_after_removal(items, brands, config) == filter_listings(items, brands, config)

\* The list a call was given, after the call: no statement of the loop
\* (lines 52-83) assigns to the list or to a listing.
listings_after_filter(items, brands, config) == items

\* AgenteFiltro.__init__
FilterStart ==
    /\ excluded_brands \in BrandLists
    /\ filter_config \in FilterConfigs
    /\ filter_pc = "idle"
    /\ filter_given = <<>>
    /\ filter_input = <<>>
    /\ filtered_listings = <<>>
    /\ filter_again = <<>>

FilterIdle ==
    /\ excluded_brands = <<>>
    /\ filter_config = NoCall
    /\ filter_pc = "off"
    /\ filter_given = <<>>
    /\ filter_input = <<>>
    /\ filtered_listings = <<>>
    /\ filter_again = <<>>

\* One call of filter_listings.
FilterCall ==
    /\ filter_pc = "idle"
    /\ \E items \in ListingLists(MaxListings) :
          /\ filter_given' = items
          /\ filter_input' = listings_after_filter(items, excluded_brands, filter_config)
          /\ filtered_listings' = filter_listings(items, excluded_brands, filter_config)
    /\ filter_pc' = "done"
    /\ filter_again' = <<>>
    /\ UNCHANGED <<excluded_brands, filter_config>>
    /\ UNCHANGED notFilterVars

\* A second call of filter_listings, on the list the first one was given.
FilterCallAgain ==
    /\ filter_pc = "done"
    /\ filter_input' = listings_after_filter(filter_input, excluded_brands, filter_config)
    /\ filter_again' = filter_listings(filter_input, excluded_brands, filter_config)
    /\ filter_pc' = "twice"
    /\ UNCHANGED <<excluded_brands, filter_config, filter_given, filtered_listings>>
    /\ UNCHANGED notFilterVars

\* The caller takes the result.
FilterReturn ==
    /\ filter_pc \in {"done", "twice"}
    /\ filter_pc' = "idle"
    /\ filter_given' = <<>>
    /\ filter_input' = <<>>
    /\ filtered_listings' = <<>>
    /\ filter_again' = <<>>
    /\ UNCHANGED <<excluded_brands, filter_config>>
    /\ UNCHANGED notFilterVars

\* update_excluded_brands(brands)
UpdateExcludedBrands ==
    /\ filter_pc = "idle"
    /\ \E brands \in BrandLists : excluded_brands' = brands
    /\ UNCHANGED <<filter_config, filter_pc, filter_given, filter_input, filtered_listings,
                   filter_again>>
    /\ UNCHANGED notFilterVars

FilterNext == FilterCall \/ FilterCallAgain \/ FilterReturn \/ UpdateExcludedBrands

-----------------------------------------------------------------------------
(***************************************************************************)
(* The ranking: search_agent/processing/ranking.py, AgenteRanking.  A      *)
(* float is held in thousandths; math.exp and math.sqrt are given at the   *)
(* arguments the listings of the model lead to.  A call is one step; its   *)
(* caller takes the result in another.                                     *)
(***************************************************************************)
One == 1000      \* the float 1.0

\* a * b
Times(a, b) == (a * b) \div One

Smaller(a, b) == IF a < b THEN a ELSE b
Larger(a, b) == IF a > b THEN a ELSE b

\* max(0.0, min(1.0, score)), min(max(final_score, 0.0), 1.0)
unclamped(score) == score
clamp(score) == Larger(0, Smaller(One, score))

\* math.exp(x)
math_exp(x) ==
    CASE x = -5 -> 995
      [] x = 0 -> 1000
      [] x = 10 -> 1010
      [] x = 1000 -> 2718
      [] x = 9990 -> 21807298

\* math.sqrt(x), for x in 0.0 .. 1.0
math_sqrt(x) ==
    CASE x = 250 -> 500
      [] x = 1000 -> 1000

\* _calculate_price_score(price, max_price, price_floor, price_decay)
calculate_price_score(price, max_price, price_floor, price_decay) ==
    IF price = None THEN Num(0)
    ELSE IF ~IsNum(price) THEN Raised
    ELSE IF price.v <= 0 THEN Num(0)
    ELSE LET normalized_price ==
                 ((Smaller(price.v, max_price) - price_floor) * One) \div price_decay
             score == (One * One) \div (One + math_exp(normalized_price))
         IN  Num(clamp(score))

\* _calculate_sales_score(sales, max_sales, sales_weight)
calculate_sales_score(sales, max_sales, sales_weight) ==
    IF sales = None THEN Num(0)
    ELSE IF ~IsNum(sales) THEN Raised
    ELSE IF sales.v <= 0 THEN Num(0)
    ELSE LET normalized_sales == Smaller((sales.v * One) \div max_sales, One)
             score == Times(math_sqrt(normalized_sales), sales_weight)
         IN  Num(clamp(score))

RankNew == <<"n", "e", "w">>
RankUsed == <<"u", "s", "e", "d">>

\* _calculate_condition_score(condition, {}): the default scores of the
\* conditions of the model, 0.5 for any other
calculate_condition_score(condition) ==
    IF ~IsStr(condition) THEN Raised
    ELSE IF Lower(condition.v) = RankNew THEN Num(One)
    ELSE Num(500)

\* _calculate_seller_score(seller, {})
calculate_seller_score(seller) ==
    IF ~Truthy(seller) THEN Num(500)
    ELSE IF ~IsDict(seller) THEN Raised
    ELSE LET reputation == Get(seller, "seller_reputation", Dict(NoKeys)) IN
         IF ~IsDict(reputation) THEN Raised
         ELSE LET transactions == Get(reputation, "transactions", Dict(NoKeys)) IN
              IF ~IsDict(transactions) THEN Raised
              ELSE LET completed == Get(transactions, "completed", Num(0)) IN
                   IF ~IsNum(completed) THEN Raised
                   ELSE IF completed.v > 0
                   THEN Num(clamp(500 + Smaller(completed.v \div 10, 200)))
                   ELSE Num(clamp(500))

\* _calculate_shipping_score(shipping, {})
calculate_shipping_score(shipping) ==
    IF ~Truthy(shipping) THEN Num(500)
    ELSE IF ~IsDict(shipping) THEN Raised
    ELSE LET free == IF Truthy(Get(shipping, "free_shipping", Bool(FALSE))) THEN 200 ELSE 0
             fast == IF Truthy(Get(shipping, "fast_shipping", Bool(FALSE))) THEN 100 ELSE 0
         IN  Num(clamp(500 + free + fast))

\* self.weights.get(k, default)
Weight(w, k, default) ==
    IF ~IsDict(w) THEN Raised
    ELSE Get(w, k, Num(default))

\* calculate_score(product): the float it returns
calculate_score(product, w) ==
    IF ~Truthy(product) THEN 0
    ELSE IF ~IsDict(product) THEN 0
    ELSE LET price_score == calculate_price_score(Get(product, "price", None),
                                                  1000000, 1000, 100000)
             sales_score == calculate_sales_score(Get(product, "sold_quantity", Num(0)),
                                                  100, One)
             condition_score == calculate_condition_score(
                                    Get(product, "condition", NotSpecified))
             seller_score == calculate_seller_score(Get(product, "seller", Dict(NoKeys)))
             shipping_score == calculate_shipping_score(
                                   Get(product, "shipping", Dict(NoKeys)))
             parts == {price_score, sales_score, condition_score, seller_score,
                       shipping_score, Weight(w, "price", 400), Weight(w, "sales", 400),
                       Weight(w, "condition", 200)}
         IN  IF \E x \in parts : ~IsNum(x) THEN 0
             ELSE LET final_score ==
                          Times(Times(Times(price_score.v, Weight(w, "price", 400).v)
                                      + Times(sales_score.v, Weight(w, "sales", 400).v)
                                      + Times(condition_score.v,
                                              Weight(w, "condition", 200).v),
                                      seller_score.v),
                                shipping_score.v)
                  IN  clamp(final_score)

\* x.get('_ranking_score', 0), the key of the sort
ranking_score(x) == Get(x, "_ranking_score", Num(0)).v

\* A sort by ascending key that is then reversed: equal keys end in the
\* reverse of their input order.
RECURSIVE sort_then_reversed(_)
sort_then_reversed(l) ==
    IF l = <<>> THEN <<>>
    ELSE LET x == l[Len(l)]
             acc == sort_then_reversed(SubSeq(l, 1, Len(l) - 1))
             k == Cardinality({i \in 1..Len(acc) : ranking_score(acc[i]) > ranking_score(x)})
         IN  SubSeq(acc, 1, k) \o <<x>> \o SubSeq(acc, k + 1, Len(acc))

\* list.sort(key=..., reverse=True): descending, equal keys in input order
RECURSIVE sort_reverse(_)
sort_reverse(l) ==
    IF l = <<>> THEN <<>>
    ELSE LET x == l[Len(l)]
             acc == sort_reverse(SubSeq(l, 1, Len(l) - 1))
             k == Cardinality({i \in 1..Len(acc) : ranking_score(acc[i]) >= ranking_score(x)})
         IN  SubSeq(acc, 1, k) \o <<x>> \o SubSeq(acc, k + 1, Len(acc))

\* The loop of rank_products: a copy of each product with its score.
scored_products(products, w) ==
    [i \in 1..Len(products) |->
        With(products[i], "_ranking_score", Num(calculate_score(products[i], w)))]

\* A limit that reads the argument limit alone.
result_limit_only(limit, top_n) == limit
\* result_limit = top_n if top_n is not None else limit
result_limit(limit, top_n) == IF top_n # None THEN top_n.v ELSE limit

\* rank_products(products, limit, top_n)
rank_products(products, limit, top_n, w) ==
    IF products = <<>> THEN <<>>
    ELSE LET sorted == sort_reverse(scored_products(products, w)) IN
         IF result_limit(limit, top_n) > 0
         THEN Take(sorted, result_limit(limit, top_n))
         ELSE sorted

\* The list rank_products was given, after the call: the loop scores a copy
\* of each product (line 262) and sorts the list of the copies.
products_after_rank(products, w) == products

Product(id, price, sold_quantity, condition) ==
    Dict([id |-> Num(id), price |-> price, sold_quantity |-> Num(sold_quantity),
          condition |-> condition])

Reputed == Dict([seller_reputation |->
                    Dict([level_id |-> Text("5_green"),
                          transactions |-> Dict([completed |-> Num(1000)])])])

\* The products rank_products is given: complete ones, two that differ in
\* the id alone, a free one, one with nulls.
RankProducts ==
    { With(With(Product(1, Num(500), 100, Str(RankNew)), "seller", Reputed),
           "shipping", Dict([free_shipping |-> Bool(TRUE)])),
      Product(2, Num(2000), 25, Str(<<"U", "S", "E", "D">>)),
      Product(3, Num(2000), 25, Str(<<"U", "S", "E", "D">>)),
      Product(4, Num(0), 0, Str(RankNew)),
      Dict([id |-> Num(6), price |-> None, condition |-> None]) }

\* The products calculate_score is given: those, an empty one, and ones with
\* a field of another type than the code expects, a missing field, a null.
ScoreProducts ==
    RankProducts
    \cup { Dict(NoKeys),
           Product(5, Text("abc"), 100, Str(RankNew)),
           Product(7, Num(500), 100, Num(1)),
           With(Product(8, Num(500), 100, Str(RankNew)), "seller", Text("x")),
           With(Product(9, Num(500), 100, Str(RankNew)), "seller",
                Dict([seller_reputation |-> None])),
           With(Product(10, Num(1000000), 100, Str(RankNew)), "shipping", Text("x")),
           With(Product(11, Num(101000), 100, Str(RankNew)), "shipping",
                Dict([free_shipping |-> Bool(TRUE), fast_shipping |-> Bool(TRUE)])),
           Dict([price |-> Num(1000), sold_quantity |-> None]),
           Dict([price |-> Num(-5), sold_quantity |-> Text("x")]) }

RECURSIVE ProductLists(_)
ProductLists(n) ==
    IF n = 0 THEN {<<>>}
    ELSE ProductLists(n - 1)
         \cup { Append(l, i) : l \in {m \in ProductLists(n - 1) : Len(m) = n - 1},
                               i \in RankProducts }

\* ranking.weights as configured: absent keys (the defaults of the code),
\* weights above 1, a negative weight, a null
WeightSets ==
    { Dict(NoKeys),
      Dict([price |-> Num(2000), sales |-> Num(3000), condition |-> Num(1000)]),
      Dict([price |-> Num(-1000)]),
      None }

\* The arguments limit and top_n of a call; 10 is the default limit.
Limits == { <<10, None>>, <<0, None>>, <<1, None>>, <<2, None>>, <<2, Num(1)>>, <<1, Num(0)>> }

\* The prices _calculate_price_score is given.
Prices == { Num(-5), Num(0), Num(500), Num(1000), Num(2000), Num(101000), Num(1000000),
            Num(2000000) }

\* AgenteRanking.__init__
RankStart ==
    /\ weights \in WeightSets
    /\ rank_pc = "idle"
    /\ rank_call = NoCall

RankIdle ==
    /\ weights = NoCall
    /\ rank_pc = "off"
    /\ rank_call = NoCall

\* One call of rank_products.
RankCall ==
    /\ rank_pc = "idle"
    /\ \E products \in ProductLists(MaxProducts), a \in Limits :
          \E out \in {rank_products(products, a[1], a[2], weights)} :
              rank_call' = [fn |-> "rank_products", given |-> products,
                            products |-> products_after_rank(products, weights),
                            limit |-> a[1], top_n |-> a[2], ret |-> out, again |-> NoCall]
    /\ rank_pc' = "ranked"
    /\ UNCHANGED weights
    /\ UNCHANGED notRankVars

\* A second call of rank_products, on the list the first one was given.
RankCallAgain ==
    /\ rank_pc = "ranked"
    /\ \E out \in {rank_products(rank_call.products, rank_call.limit, rank_call.top_n,
                                 weights)} :
          rank_call' = [rank_call EXCEPT
                           !.products = products_after_rank(rank_call.products, weights),
                           !.again = List(out)]
    /\ rank_pc' = "twice"
    /\ UNCHANGED weights
    /\ UNCHANGED notRankVars

\* One call of calculate_score.
ScoreCall ==
    /\ rank_pc = "idle"
    /\ \E product \in ScoreProducts :
          rank_call' = [fn |-> "calculate_score", product |-> product,
                        ret |-> calculate_score(product, weights)]
    /\ rank_pc' = "scored"
    /\ UNCHANGED weights
    /\ UNCHANGED notRankVars

\* Two calls of _calculate_price_score, with the price settings of
\* calculate_score, the first price not above the second.
PriceScoreCall ==
    /\ rank_pc = "idle"
    /\ \E p1 \in Prices, p2 \in Prices :
          /\ p1.v <= p2.v
          /\ rank_call' = [fn |-> "_calculate_price_score", p1 |-> p1, p2 |-> p2,
                           f1 |-> calculate_price_score(p1, 1000000, 1000, 100000).v,
                           f2 |-> calculate_price_score(p2, 1000000, 1000, 100000).v]
    /\ rank_pc' = "priced"
    /\ UNCHANGED weights
    /\ UNCHANGED notRankVars

\* The caller takes the result.
RankReturn ==
    /\ rank_pc \in {"ranked", "twice", "scored", "priced"}
    /\ rank_pc' = "idle"
    /\ rank_call' = NoCall
    /\ UNCHANGED weights
    /\ UNCHANGED notRankVars

RankNext == RankCall \/ RankCallAgain \/ ScoreCall \/ PriceScoreCall \/ RankReturn

-----------------------------------------------------------------------------
(***************************************************************************)
(* The pipeline: app/orquestador.py, Orquestador, and                      *)
(* search_agent/core/orchestrator.py, SearchOrchestrator.  One step per    *)
(* stage call of execute_top_seller_search, one per product of the contact *)
(* loop.  The marketplace and the contact providers are an environment;    *)
(* the filter and the ranking are those of the sections above.             *)
(***************************************************************************)
Raises(kind) == [t |-> "raised", kind |-> kind]

\* s.strip() is not empty
NotBlank(s) == Strip(s) # <<>>

IsLetter(c) ==
    \E i \in 1..Len(UpperCase) : UpperCase[i] = c \/ LowerCase[i] = c

\* secrets.required_secrets as configured: the list of get_secrets.
RequiredSecrets == {"RAPIDAPI-KEY", "GOOGLE-API-KEY", "GOOGLE-CSE-ID"}

\* self.secrets after the constructor has read the argument and the
\* environment variables
SecretSets == { RequiredSecrets, {"GOOGLE-API-KEY", "GOOGLE-CSE-ID"}, {} }

\* missing_secrets = [s for s in required_secrets if s not in self.secrets]
missing_secrets(given) == RequiredSecrets \ given

Queries == { None, Str(<<>>), Str(<<" ">>), Str(<<"t", "v">>) }
CountryCodes ==
    { None, Str(<<>>), Str(<<"A">>), Str(<<"A", "R">>), Str(<<"a", "r">>),
      Str(<<"1", "2">>), Str(<<"A", "R", "G">>) }

\* The checks of execute_top_seller_search before its try block: what they
\* raise, or None.
validate(which, q, country) ==
    IF ~Truthy(q) \/ ~NotBlank(q.v) THEN Raises("ValueError")
    ELSE IF which = "search_agent"
    THEN IF ~Truthy(country) \/ ~IsStr(country) \/ Len(country.v) # 2
         THEN Raises("ValueError")
         ELSE None
    ELSE IF ~IsStr(country) THEN Raises("AttributeError")     \* country_code.upper()
    ELSE None

PipelineSeller(id, nickname) == Dict([id |-> id, nickname |-> Str(nickname)])
PipelineProduct(id, seller) == Dict([id |-> Num(id), seller |-> seller])

\* What the marketplace client returns: no products (also when the provider
\* failed, which the client turns into an empty list), or products, of a
\* seller to keep, of an excluded brand, of a seller without name or id.
MarketplaceProducts ==
    { PipelineProduct(1, PipelineSeller(Num(11), Ap)),
      PipelineProduct(2, PipelineSeller(Num(12), Sam)),
      PipelineProduct(3, PipelineSeller(None, <<>>)),
      PipelineProduct(4, PipelineSeller(Num(14), <<"l", "g">>)) }

RECURSIVE MarketplaceAnswers(_)
MarketplaceAnswers(n) ==
    IF n = 0 THEN {<<>>}
    ELSE MarketplaceAnswers(n - 1)
         \cup { Append(l, i) : l \in {m \in MarketplaceAnswers(n - 1) : Len(m) = n - 1},
                               i \in MarketplaceProducts }

\* The filters.* values and ranking.weights the stages run with.
PipelineBrands == <<Sam>>
PipelineFilterConfig ==
    [min_price |-> Num(0), max_price |-> Infinity,
     allowed_conditions |-> {New, Used, NotSpecified}]
PipelineWeights == Dict(NoKeys)

\* Lines 211-220 of Orquestador: a product without a seller name is left out.
has_seller_name(producto) ==
    LET seller == Get(producto, "seller", Dict(NoKeys))
        seller_name == Get(seller, "nickname", Str(<<>>))
    IN  Truthy(seller_name) /\ NotBlank(seller_name.v)

\* The ids of the products of a list
product_ids(products) == { Get(products[i], "id", None).v : i \in 1..Len(products) }

\* An entry of the history: the stage that was called, and the products it
\* returned (the product it was called for, of a contact lookup).
Event(e, ids) == [e |-> e, ids |-> ids]

\* The deadlines a caller may have for a run, and the time one contact lookup
\* (a request to a provider) may take.
Deadlines == {1, 2}
LookupTimes == {0, 1}

\* The time after a contact lookup: the loop waits for each lookup to return
\* (orchestrator.py:163-170), whatever the time it has spent.
time_after(clock, deadline, taken) == clock + taken

\* Orquestador.__init__, SearchOrchestrator.__init__: the secrets of the
\* argument and of the environment are kept, missing ones are logged as a
\* warning, and the agents are built with the keys there are.
PipelineStart ==
    /\ orchestrator \in {"app", "search_agent"}
    /\ secrets \in SecretSets
    /\ pipe_pc = "idle"
    /\ pipe_args = NoCall
    /\ pipe_products = <<>>
    /\ pipe_index = 0
    /\ pipe_trace = <<>>
    /\ pipe_result = NoCall
    /\ pipe_deadline = 0
    /\ pipe_clock = 0

PipelineIdle ==
    /\ orchestrator = "off"
    /\ secrets = {}
    /\ pipe_pc = "off"
    /\ pipe_args = NoCall
    /\ pipe_products = <<>>
    /\ pipe_index = 0
    /\ pipe_trace = <<>>
    /\ pipe_result = NoCall
    /\ pipe_deadline = 0
    /\ pipe_clock = 0

\* execute_top_seller_search(query, country_code): the validation.
ExecuteCall ==
    /\ pipe_pc = "idle"
    /\ \E q \in Queries, country \in CountryCodes :
          /\ pipe_args' = [query |-> q, country_code |-> country]
          /\ IF validate(orchestrator, q, country) = None
             THEN pipe_pc' = "search" /\ pipe_result' = NoCall
             ELSE pipe_pc' = "done" /\ pipe_result' = validate(orchestrator, q, country)
    /\ pipe_trace' = <<>>
    /\ pipe_products' = <<>>
    /\ pipe_index' = 0
    /\ pipe_deadline' \in Deadlines
    /\ pipe_clock' = 0
    /\ UNCHANGED <<orchestrator, secrets>>
    /\ UNCHANGED notPipelineVars

\* 1. the marketplace search, a request to the provider
MarketplaceSearch ==
    /\ pipe_pc = "search"
    /\ \E productos \in MarketplaceAnswers(MaxRunProducts) :
          /\ pipe_trace' = Append(pipe_trace, Event("search", product_ids(productos)))
          /\ IF productos = <<>>
             THEN /\ pipe_result' = List(<<>>)
                  /\ pipe_pc' = "done"
                  /\ UNCHANGED <<pipe_products, pipe_index>>
             ELSE IF orchestrator = "app"
             THEN /\ pipe_products' = SelectSeq(productos, has_seller_name)
                  /\ pipe_pc' = IF pipe_products' # <<>> THEN "filter" ELSE "rank"
                  /\ UNCHANGED <<pipe_result, pipe_index>>
             ELSE /\ pipe_products' = productos
                  /\ pipe_pc' = "filter"
                  /\ UNCHANGED <<pipe_result, pipe_index>>
    /\ UNCHANGED <<orchestrator, secrets, pipe_args, pipe_deadline, pipe_clock>>
    /\ UNCHANGED notPipelineVars

\* 2. the filter
FilterStage ==
    /\ pipe_pc = "filter"
    /\ \E out \in {filter_listings(pipe_products, PipelineBrands, PipelineFilterConfig)} :
          /\ pipe_trace' = Append(pipe_trace, Event("filter", product_ids(out)))
          /\ pipe_products' = out
          /\ IF orchestrator = "app"
             THEN /\ pipe_pc' = IF out # <<>> THEN "contact" ELSE "rank"
                  /\ pipe_index' = 1
                  /\ UNCHANGED pipe_result
             ELSE IF out = <<>>
             THEN pipe_pc' = "done" /\ pipe_result' = List(<<>>) /\ UNCHANGED pipe_index
             ELSE pipe_pc' = "rank" /\ UNCHANGED <<pipe_result, pipe_index>>
    /\ UNCHANGED <<orchestrator, secrets, pipe_args, pipe_deadline, pipe_clock>>
    /\ UNCHANGED notPipelineVars

\* The ranking: step 4 of Orquestador, step 3 of SearchOrchestrator.
RankStage ==
    /\ pipe_pc = "rank"
    /\ \E out \in {rank_products(pipe_products, 10, None, PipelineWeights)} :
          /\ pipe_trace' = Append(pipe_trace, Event("rank", product_ids(out)))
          /\ IF orchestrator = "app"
             THEN /\ pipe_result' = List(out)
                  /\ pipe_pc' = "done"
                  /\ UNCHANGED <<pipe_products, pipe_index>>
             ELSE /\ pipe_products' = out
                  /\ pipe_pc' = "contact"
                  /\ pipe_index' = 1
                  /\ UNCHANGED pipe_result
    /\ UNCHANGED <<orchestrator, secrets, pipe_args, pipe_deadline, pipe_clock>>
    /\ UNCHANGED notPipelineVars

\* One product of the contact loop: step 3 of Orquestador (the facade has no
\* method obtener_contacto_vendedor: the call raises, the handler stores
\* None), step 4 of SearchOrchestrator (the contact manager answers or
\* raises, the handler stores {}).
ContactStage ==
    /\ pipe_pc = "contact"
    /\ LET product == pipe_products[pipe_index]
           seller_id == Get(Get(product, "seller", Dict(NoKeys)), "id", None)
           last == pipe_index = Len(pipe_products)
       IN  /\ IF orchestrator = "app"
              THEN /\ pipe_products' =
                          [pipe_products EXCEPT ![pipe_index] = With(product, "contacto", None)]
                   /\ pipe_trace' = Append(pipe_trace, Event("contact", {Get(product, "id", None).v}))
                   /\ UNCHANGED pipe_clock
              ELSE IF Truthy(seller_id)
              THEN /\ \E taken \in LookupTimes :
                         pipe_clock' = time_after(pipe_clock, pipe_deadline, taken)
                   /\ \E seller_contact \in {Dict([phone |-> Text("+54")]), Raised} :
                         pipe_products' =
                             [pipe_products EXCEPT ![pipe_index] =
                                 With(product, "seller_contact",
                                      IF seller_contact = Raised THEN Dict(NoKeys)
                                      ELSE seller_contact)]
                   /\ pipe_trace' = Append(pipe_trace, Event("contact", {Get(product, "id", None).v}))
              ELSE UNCHANGED <<pipe_products, pipe_trace, pipe_clock>>
           /\ IF ~last
              THEN pipe_index' = pipe_index + 1 /\ UNCHANGED <<pipe_pc, pipe_result>>
              ELSE IF orchestrator = "app"
              THEN pipe_pc' = "rank" /\ UNCHANGED <<pipe_index, pipe_result>>
              ELSE /\ pipe_pc' = "done"
                   /\ pipe_result' = List(pipe_products')
                   /\ UNCHANGED pipe_index
    /\ UNCHANGED <<orchestrator, secrets, pipe_args, pipe_deadline>>
    /\ UNCHANGED notPipelineVars

\* The caller takes the result or the exception.
ExecuteReturn ==
    /\ pipe_pc = "done"
    /\ pipe_pc' = "idle"
    /\ pipe_args' = NoCall
    /\ pipe_products' = <<>>
    /\ pipe_index' = 0
    /\ pipe_trace' = <<>>
    /\ pipe_result' = NoCall
    /\ pipe_deadline' = 0
    /\ pipe_clock' = 0
    /\ UNCHANGED <<orchestrator, secrets>>
    /\ UNCHANGED notPipelineVars

PipelineNext ==
    \/ ExecuteCall
    \/ MarketplaceSearch
    \/ FilterStage
    \/ RankStage
    \/ ContactStage
    \/ ExecuteReturn

-----------------------------------------------------------------------------
(***************************************************************************)
(* The HTTP clients: app/api_client.py, APIClient, and                     *)
(* search_agent/utils/http_client.py, HTTPClient.  The retry decorator of  *)
(* tenacity calls the method again while its predicate accepts the         *)
(* exception and the stop condition does not hold, and re-raises the last  *)
(* exception (reraise=True).  The server and the network are an            *)
(* environment that answers each attempt.                                  *)
(***************************************************************************)
StopAfterAttempt == 3

\* What an attempt meets: a response with a status, or an exception of
\* session.request (TypeError: an argument it does not take).
HttpResponse(status) == [exc |-> "none", status |-> status]
HttpException(exc) == [exc |-> exc, status |-> 0]
HttpAnswers ==
    { HttpResponse(200), HttpResponse(404), HttpResponse(429), HttpResponse(500),
      HttpException("ConnectionError"), HttpException("Timeout"),
      HttpException("TooManyRedirects"), HttpException("TypeError") }

HttpMethods == {"GET", "POST"}

\* requests.exceptions: the classes that are RequestException or inherit it
RequestExceptions ==
    {"RequestException", "Timeout", "ConnectionError", "HTTPError", "TooManyRedirects"}

\* isinstance(e, classes), the classes given by name
IsInstance(exc, classes) ==
    \/ exc \in classes
    \/ "RequestException" \in classes /\ exc \in RequestExceptions

RETRYABLE_EXCEPTIONS == {"RequestException", "Timeout", "ConnectionError", "HTTPError"}

\* response.raise_for_status()
raise_for_status(answer) ==
    IF answer.status >= 400 /\ answer.status < 600 THEN "HTTPError" ELSE "none"

\* The exception an attempt ends with ("none": it returns the response)
attempt_raises(answer) ==
    IF answer.exc # "none" THEN answer.exc ELSE raise_for_status(answer)

retry_if_exception_type(exc) == IsInstance(exc, RETRYABLE_EXCEPTIONS)

stop_after_attempt(attempt_number) == attempt_number >= StopAfterAttempt

\* A client whose every method is decorated
retry_on_every_method(class, method) == TRUE

\* The method runs under @retry: APIClient.get, and HTTPClient.request, which
\* every method of HTTPClient calls.  APIClient.post is not decorated.
has_retry(class, method) == class = "HTTPClient" \/ method = "GET"

HttpStart ==
    /\ http_client \in {"APIClient", "HTTPClient"}
    /\ http_pc = "idle"
    /\ http_method = "none"
    /\ http_attempts = <<>>
    /\ http_result = NoCall

HttpIdle ==
    /\ http_client = "off"
    /\ http_pc = "off"
    /\ http_method = "none"
    /\ http_attempts = <<>>
    /\ http_result = NoCall

\* client.get(...), client.post(...)
HttpCall ==
    /\ http_pc = "idle"
    /\ \E method \in HttpMethods : http_method' = method
    /\ http_pc' = "attempt"
    /\ http_attempts' = <<>>
    /\ http_result' = NoCall
    /\ UNCHANGED http_client
    /\ UNCHANGED notHttpVars

\* One attempt: the body of the method, and what the decorator does with
\* its outcome.
HttpAttempt ==
    /\ http_pc = "attempt"
    /\ \E answer \in HttpAnswers :
          LET exc == attempt_raises(answer)
              attempt_number == Len(http_attempts) + 1
          IN  /\ http_attempts' = Append(http_attempts, answer)
              /\ IF exc = "none"
                 THEN http_pc' = "done" /\ http_result' = answer
                 ELSE IF /\ has_retry(http_client, http_method)
                         /\ retry_if_exception_type(exc)
                         /\ ~stop_after_attempt(attempt_number)
                 THEN UNCHANGED <<http_pc, http_result>>
                 ELSE http_pc' = "done" /\ http_result' = Raises(exc)
    /\ UNCHANGED <<http_client, http_method>>
    /\ UNCHANGED notHttpVars

\* The caller takes the response or the exception.
HttpReturn ==
    /\ http_pc = "done"
    /\ http_pc' = "idle"
    /\ http_method' = "none"
    /\ http_attempts' = <<>>
    /\ http_result' = NoCall
    /\ UNCHANGED http_client
    /\ UNCHANGED notHttpVars

HttpNext == HttpCall \/ HttpAttempt \/ HttpReturn

-----------------------------------------------------------------------------
(***************************************************************************)
(* The pagination of the single-host client: tests/agente_ml_simple.py,    *)
(* AgenteML.search, lines 60-300.  One step per iteration of the while     *)
(* loop that issues a request; the provider is an environment that answers *)
(* each request.                                                           *)
(***************************************************************************)
max_consecutive_empty == 5

\* What a request and the decoding of its response can end in.  A response
\* with another status than 200 is written to a log file, which can fail.
SimpleFailures ==
    {"status_not_200", "status_not_200_log_failed", "request_exception", "bad_json"}

SimpleAnswer(kind, listings, sellers) == [kind |-> kind, listings |-> listings, sellers |-> sellers]

\* The answers of the provider: a failure, a response without listings, or
\* a page of listings of which some carry a seller id.
SimpleAnswers ==
    { SimpleAnswer(k, 0, 0) : k \in SimpleFailures \cup {"empty"} }
    \cup { SimpleAnswer("page", n, s) : n \in {1, PageSize}, s \in {0, 1} }
    \cup { SimpleAnswer("page", PageSize, PageSize) }

\* A loop that keeps no count of the pages that brought no seller.
uncounted_page(answer, count) == count

\* consecutive_empty_pages after the answer: reset by a page with a seller
\* (line 270), one more after anything else (lines 130-145, 273, 290, 299).
empty_pages_after(answer, count) ==
    IF answer.kind = "page" /\ answer.sellers > 0 THEN 0 ELSE count + 1

\* current_page after the answer: the next page after a failed request
\* (lines 131, 140, 146) and after a page of listings (line 277); unchanged
\* after a response without listings (lines 288-290) and after an exception
\* outside the inner try (lines 297-300).
page_after(answer, n) ==
    IF answer.kind \in {"empty", "status_not_200_log_failed"} THEN n ELSE n + 1

\* results_with_seller after the listings of the page: the loop over them
\* ends once min_results is reached (lines 255-261).
sellers_after(answer, found, wanted) ==
    IF found + answer.sellers >= wanted THEN wanted ELSE found + answer.sellers

\* The breaks at the end of an iteration with listings (lines 280-287).
breaks_after_page(answer, found, wanted) ==
    answer.kind = "page" /\ (found >= wanted \/ answer.listings < PageSize)

\* The loop goes on: its condition (line 78) and the two exits at its head
\* (lines 80-86).
loop_continues(n, limit, found, wanted, count) ==
    /\ n <= limit
    /\ found < wanted
    /\ count < max_consecutive_empty

NoRequest == [n |-> 0, page |-> 0, kind |-> "none"]

SimpleStart ==
    /\ simple_max_pages \in 1..MaxSimplePages
    /\ min_results \in {1, 2, PageSize + 1}
    /\ simple_pc = "loop"
    /\ current_page = 1
    /\ simple_empty_pages = 0
    /\ results_with_seller = 0
    /\ simple_last = NoRequest

SimpleIdle ==
    /\ simple_max_pages = 0
    /\ min_results = 0
    /\ simple_pc = "idle"
    /\ current_page = 0
    /\ simple_empty_pages = 0
    /\ results_with_seller = 0
    /\ simple_last = NoRequest

\* One iteration of the while loop: the request for current_page and what is
\* done with its answer.
SimpleRequest ==
    /\ simple_pc = "loop"
    /\ loop_continues(current_page, simple_max_pages, results_with_seller, min_results,
                      simple_empty_pages)
    /\ simple_last.n < max_consecutive_empty * (MaxSimplePages + 1)   \* cap of the history counter
    /\ \E answer \in SimpleAnswers :
          /\ simple_last' = [n |-> simple_last.n + 1, page |-> current_page,
                             kind |-> answer.kind]
          /\ simple_empty_pages' = empty_pages_after(answer, simple_empty_pages)
          /\ current_page' = page_after(answer, current_page)
          /\ results_with_seller' = sellers_after(answer, results_with_seller, min_results)
          /\ simple_pc' = IF breaks_after_page(answer, results_with_seller', min_results)
                          THEN "done" ELSE "loop"
    /\ UNCHANGED <<simple_max_pages, min_results>>
    /\ UNCHANGED notSimpleVars

\* The loop ends at its head; the results are formatted and returned.
SimpleExit ==
    /\ simple_pc = "loop"
    /\ ~loop_continues(current_page, simple_max_pages, results_with_seller, min_results,
                       simple_empty_pages)
    /\ simple_pc' = "done"
    /\ UNCHANGED <<simple_max_pages, min_results, current_page, simple_empty_pages,
                   results_with_seller, simple_last>>
    /\ UNCHANGED notSimpleVars

SimpleNext == SimpleRequest \/ SimpleExit

\* Either client is asked to search.
SearchesNext == ProbeNext \/ SimpleNext

-----------------------------------------------------------------------------
(***************************************************************************)
(* Two CacheManagers of services/cache_manager.py given the same calls:    *)
(* one built without a reachable networked store (use_redis False), one    *)
(* on a networked store that answers every call.  The values are objects   *)
(* the caller holds and can change in place.                               *)
(***************************************************************************)
TwinKeys == {"k1"}
TwinObjects == {"a"}

\* A value json.dumps has no encoding for (a set, a datetime)
NotJson == [t |-> "object"]

\* What an object of the caller can hold: results, results after an append
\* to their list, results with a value that is not JSON.
TwinContents ==
    { Dict([r |-> List(<<Num(1)>>)]),
      Dict([r |-> List(<<Num(1), Num(2)>>)]),
      Dict([r |-> NotJson]) }

\* expire_seconds of a set: negative, zero or positive
TwinTTLs == {-1, 0, 1}

\* json.dumps(value) raises TypeError unless every part of the value is JSON
RECURSIVE is_serializable(_)
is_serializable(x) ==
    CASE x.t = "dict" -> \A k \in DOMAIN x.v : is_serializable(x.v[k])
      [] x.t \in {"list", "tuple"} -> \A i \in 1..Len(x.v) : is_serializable(x.v[i])
      [] x.t = "object" -> FALSE
      [] OTHER -> TRUE

\* self.redis.setex(key, expire_seconds, json.dumps(value)): json.dumps
\* raises TypeError for a value that is not JSON, and the store answers an
\* expire time that is not positive with an error (ResponseError: invalid
\* expire time), so the handler of set returns False and nothing is stored.
setex_accepts(value, expire_seconds) == is_serializable(value) /\ expire_seconds > 0

TwinStart ==
    /\ twin_memory = NoKeys
    /\ twin_redis = NoKeys
    /\ twin_heap \in [TwinObjects -> {Dict([r |-> List(<<Num(1)>>)])}]
    /\ twin_now = 0
    /\ twin_last = [op |-> "none", key |-> "", memory |-> None, redis |-> None]

TwinIdle ==
    /\ twin_memory = NoKeys
    /\ twin_redis = NoKeys
    /\ twin_heap = NoKeys
    /\ twin_now = 0
    /\ twin_last = NoCall

\* What the caller sees of the same call on the two caches
TwinCall(op, key, in_memory, in_redis) ==
    [op |-> op, key |-> key, memory |-> in_memory, redis |-> in_redis]

\* set(key, value, expire_seconds) on both: the in-process map keeps the
\* object itself (lines 96-100), the store the text of its value (88-93).
TwinSet ==
    \E key \in TwinKeys, object \in TwinObjects, expire_seconds \in TwinTTLs :
        /\ twin_memory' = Put(twin_memory, key, MemoryEntry(object, twin_now, expire_seconds))
        /\ twin_redis' =
              IF setex_accepts(twin_heap[object], expire_seconds)
              THEN Put(twin_redis, key, [data |-> json_dumps(twin_heap[object]),
                                         expiry |-> twin_now + expire_seconds])
              ELSE twin_redis
        /\ twin_last' = TwinCall("set", key, Bool(TRUE),
                                 Bool(setex_accepts(twin_heap[object], expire_seconds)))
        /\ UNCHANGED <<twin_heap, twin_now>>
        /\ UNCHANGED notTwinVars

\* get(key) on both: the in-process map returns the object it keeps (lines
\* 62-71), the store a value decoded from the text (56-60).
TwinGet ==
    \E key \in TwinKeys :
        LET held == key \in DOMAIN twin_memory
            fresh == held /\ NotExpired(twin_memory[key], twin_now)
            stored == key \in DOMAIN twin_redis /\ twin_redis[key].expiry > twin_now
        IN  /\ twin_memory' = IF held /\ ~fresh THEN Del(twin_memory, key) ELSE twin_memory
            /\ twin_redis' = IF stored THEN twin_redis
                             ELSE Del(twin_redis, key)       \* the store drops what expired
            /\ twin_last' = TwinCall("get", key,
                                     IF fresh THEN twin_heap[twin_memory[key].data] ELSE None,
                                     IF stored THEN json_loads(twin_redis[key].data) ELSE None)
            /\ UNCHANGED <<twin_heap, twin_now>>
            /\ UNCHANGED notTwinVars

\* delete(key) on both (lines 116-122)
TwinDelete ==
    \E key \in TwinKeys :
        /\ twin_memory' = Del(twin_memory, key)
        /\ twin_redis' = Del(twin_redis, key)
        /\ twin_last' = TwinCall("delete", key, Bool(TRUE), Bool(TRUE))
        /\ UNCHANGED <<twin_heap, twin_now>>
        /\ UNCHANGED notTwinVars

\* The caller changes in place an object it holds: one it has stored, or one
\* get has returned from the in-process map (which is the stored object).
TwinMutate ==
    \E object \in TwinObjects, content \in TwinContents :
        /\ content # twin_heap[object]
        /\ twin_heap' = [twin_heap EXCEPT ![object] = content]
        /\ UNCHANGED <<twin_memory, twin_redis, twin_now, twin_last>>
        /\ UNCHANGED notTwinVars

\* A second passes.
TwinTick ==
    /\ twin_now < MaxTime
    /\ twin_now' = twin_now + 1
    /\ UNCHANGED <<twin_memory, twin_redis, twin_heap, twin_last>>
    /\ UNCHANGED notTwinVars

TwinNext == TwinSet \/ TwinGet \/ TwinDelete \/ TwinMutate \/ TwinTick

-----------------------------------------------------------------------------
(* The specifications *)
\* The components a specification does not run.
NoProbe == ProbeIdle
NoClient == ClientIdle
NoCache == CacheIdle
NoRuns == RunsIdle
NoStore == StoreIdle
NoWeb == WebIdle
NoGmaps == GmapsIdle
NoContacts == ContactsIdle
NoFilter == FilterIdle
NoRank == RankIdle
NoPipeline == PipelineIdle
NoHttp == HttpIdle
NoSimple == SimpleIdle
NoTwin == TwinIdle

ProbeInit ==
    /\ ProbeStart /\ NoClient /\ NoCache /\ NoRuns /\ NoStore /\ NoWeb
    /\ NoGmaps /\ NoContacts /\ NoFilter /\ NoRank /\ NoPipeline /\ NoHttp /\ NoSimple /\ NoTwin
ClientInit ==
    /\ ClientStart /\ NoProbe /\ NoCache /\ NoRuns /\ NoStore /\ NoWeb
    /\ NoGmaps /\ NoContacts /\ NoFilter /\ NoRank /\ NoPipeline /\ NoHttp /\ NoSimple /\ NoTwin
CacheInit ==
    /\ CacheStart /\ NoProbe /\ NoClient /\ NoRuns /\ NoStore /\ NoWeb
    /\ NoGmaps /\ NoContacts /\ NoFilter /\ NoRank /\ NoPipeline /\ NoHttp /\ NoSimple /\ NoTwin
RunsInit ==
    /\ RunsStart /\ NoProbe /\ NoClient /\ NoStore /\ NoWeb
    /\ NoGmaps /\ NoContacts /\ NoFilter /\ NoRank /\ NoPipeline /\ NoHttp /\ NoSimple /\ NoTwin
StoreInit ==
    /\ StoreStart /\ NoProbe /\ NoClient /\ NoRuns /\ NoWeb
    /\ NoGmaps /\ NoContacts /\ NoFilter /\ NoRank /\ NoPipeline /\ NoHttp /\ NoSimple /\ NoTwin
WebInit ==
    /\ WebStart /\ NoProbe /\ NoClient /\ NoCache /\ NoRuns /\ NoStore
    /\ NoGmaps /\ NoContacts /\ NoFilter /\ NoRank /\ NoPipeline /\ NoHttp /\ NoSimple /\ NoTwin
GmapsInit ==
    /\ GmapsStart /\ NoProbe /\ NoClient /\ NoRuns /\ NoStore /\ NoWeb
    /\ NoContacts /\ NoFilter /\ NoRank /\ NoPipeline /\ NoHttp /\ NoSimple /\ NoTwin
ContactsInit ==
    /\ ContactsStart /\ NoProbe /\ NoClient /\ NoCache /\ NoRuns /\ NoStore /\ NoWeb
    /\ NoGmaps /\ NoFilter /\ NoRank /\ NoPipeline /\ NoHttp /\ NoSimple /\ NoTwin
FilterInit ==
    /\ FilterStart /\ NoProbe /\ NoClient /\ NoCache /\ NoRuns /\ NoStore /\ NoWeb
    /\ NoGmaps /\ NoContacts /\ NoRank /\ NoPipeline /\ NoHttp /\ NoSimple /\ NoTwin
RankInit ==
    /\ RankStart /\ NoProbe /\ NoClient /\ NoCache /\ NoRuns /\ NoStore /\ NoWeb
    /\ NoGmaps /\ NoContacts /\ NoFilter /\ NoPipeline /\ NoHttp /\ NoSimple /\ NoTwin
PipelineInit ==
    /\ PipelineStart /\ NoProbe /\ NoClient /\ NoCache /\ NoRuns /\ NoStore /\ NoWeb
    /\ NoGmaps /\ NoContacts /\ NoFilter /\ NoRank /\ NoHttp /\ NoSimple /\ NoTwin
HttpInit ==
    /\ HttpStart /\ NoProbe /\ NoClient /\ NoCache /\ NoRuns /\ NoStore /\ NoWeb
    /\ NoGmaps /\ NoContacts /\ NoFilter /\ NoRank /\ NoPipeline /\ NoSimple /\ NoTwin
SimpleInit ==
    /\ SimpleStart /\ NoProbe /\ NoClient /\ NoCache /\ NoRuns /\ NoStore /\ NoWeb
    /\ NoGmaps /\ NoContacts /\ NoFilter /\ NoRank /\ NoPipeline /\ NoHttp /\ NoTwin
TwinInit ==
    /\ TwinStart /\ NoProbe /\ NoClient /\ NoCache /\ NoRuns /\ NoStore /\ NoWeb
    /\ NoGmaps /\ NoContacts /\ NoFilter /\ NoRank /\ NoPipeline /\ NoHttp /\ NoSimple
SearchesInit == ProbeInit \/ SimpleInit

SpecProbe == ProbeInit /\ [][ProbeNext]_vars
SpecClient == ClientInit /\ [][ClientNext]_vars
SpecCache == CacheInit /\ [][CacheNext]_vars
SpecRuns == RunsInit /\ [][RunsNext]_vars
SpecStore == StoreInit /\ [][StoreNext]_vars
SpecWeb == WebInit /\ [][WebNext]_vars
SpecGmaps == GmapsInit /\ [][GmapsNext]_vars
SpecContacts == ContactsInit /\ [][ContactsNext]_vars
SpecFilter == FilterInit /\ [][FilterNext]_vars
SpecRank == RankInit /\ [][RankNext]_vars
SpecPipeline == PipelineInit /\ [][PipelineNext]_vars
SpecHttp == HttpInit /\ [][HttpNext]_vars
SpecSimple == SimpleInit /\ [][SimpleNext]_vars
SpecTwin == TwinInit /\ [][TwinNext]_vars

\* Both marketplace clients, each search run to its end: an iteration that
\* can be taken is taken (time.sleep and the request time out).
SpecSearches == SearchesInit /\ [][SearchesNext]_vars /\ WF_vars(SearchesNext)

-----------------------------------------------------------------------------
(* Claims about the single-request and single-host clients *)

ClaimedSeller(item) ==
    LET seller == Get(item, "seller", None)
        fromObject == IF IsDict(seller)
                      THEN Or(Get(seller, "nickname", None), Get(seller, "id", None))
                      ELSE None
        fromString == IF seller.t # "str" THEN None
                      ELSE IF StartsWith(seller.v, Por)
                      THEN Str(Strip(SubSeq(seller.v, Len(Por) + 1, Len(seller.v))))
                      ELSE seller
        fromLink == UrlSearch(Or(Get(item, "url", None), Get(item, "permalink", None)),
                              UrlPatterns)
        placeholder == Str(VendedorPrefix \o Get(item, "id", None).v)
    IN  Or(fromObject, Or(fromString, Or(fromLink, placeholder)))

\* C6: every listing that has an id and a title is output, with the seller
\* identity the priority chain picks; none is left out for lacking a seller id.
C6_ListingKeptWithChainSeller ==
    (/\ stage = "simple_done"
     /\ Truthy(Get(raw_item, "id", None))
     /\ Truthy(Get(raw_item, "title", None)))
        => /\ Len(formatted_results) = 1
           /\ formatted_results[1].v["seller"].v["nickname"] = ClaimedSeller(raw_item)

\* C7: normalizing a normalized listing gives the same listing, field by field.
C7_NormalizeIdempotent ==
    stage = "renormalized" => renormalized = normalized

-----------------------------------------------------------------------------
(* Claims about the cache *)

\* The last set on the key of the last call, if no delete came after it.
LastWrite == written[last_call.key]

\* The last call is a get on a key whose last set is still within its TTL.
GetWithinTTL ==
    /\ last_call.op = "get"
    /\ last_call.key \in DOMAIN written
    /\ last_call.at < LastWrite.at + LastWrite.expire_seconds

\* The last call is a get on a key whose last set has outlived its TTL.
GetAfterTTL ==
    /\ last_call.op = "get"
    /\ last_call.key \in DOMAIN written
    /\ last_call.at >= LastWrite.at + LastWrite.expire_seconds

\* C8: with the networked store unreachable at construction, set(k, v, ttl)
\* returns true and every get(k) before the TTL has elapsed, with no set or
\* delete on k in between, returns v.
C8_FallbackRoundTrip ==
    ~use_redis =>
        /\ last_call.op = "set" => last_call.ret = TRUE
        /\ GetWithinTTL => last_call.ret = LastWrite.value

\* C8 witness: the fallback served a get one second after the set, within TTL.
C8_Witness ==
    /\ ~use_redis
    /\ GetWithinTTL
    /\ last_call.at > LastWrite.at
    /\ last_call.ret = LastWrite.value

\* C9: in the fallback, once the TTL of a set has elapsed every get on the key
\* returns absent, until the next set on it, and the expired entry is gone.
C9_ExpiredNeverReturned ==
    (~use_redis /\ GetAfterTTL) =>
        /\ last_call.ret = None
        /\ last_call.key \notin DOMAIN memory_cache

\* C9 witness: a get at the very second the TTL elapsed returned absent.
C9_Witness ==
    /\ ~use_redis
    /\ GetAfterTTL
    /\ last_call.at = LastWrite.at + LastWrite.expire_seconds
    /\ last_call.ret = None

\* C10: a call made while the networked store does not answer, whether it
\* failed at construction or after it, is served by the in-process map: set
\* returns true and a get within TTL returns the stored value.
C10_FailureInvisible ==
    (last_call.op \in {"set", "get"} /\ ~last_call.up) =>
        /\ last_call.op = "set" => last_call.ret = TRUE
        /\ GetWithinTTL => last_call.ret = LastWrite.value

-----------------------------------------------------------------------------
(* Claims about concurrent runs on the cache *)

\* C11: under every interleaving of concurrent get/set on the in-process map,
\* the `del` of a get that saw an expired entry never removes an entry that is
\* fresh at that moment, i.e. one another run stored in the meantime.
C11_GetNeverRemovesFresh ==
    \A r \in Runs :
        run_deleted[r] # NoItem => ~NotExpired(run_deleted[r].entry, run_deleted[r].at)

-----------------------------------------------------------------------------
(* Claims about payloads that are not JSON *)

\* The last call read, from the networked store, a payload that is not JSON.
ReadUndecodable ==
    /\ last_call.op \in {"get", "store_get"}
    /\ last_call.up
    /\ last_call.op = "get" => use_redis
    /\ last_call.op = "store_get" => client = "redis"
    /\ redis_get(last_call.key) # None
    /\ redis_get(last_call.key).t = "text"

\* C12: a get, of either CacheManager, that reads a stored payload it cannot
\* deserialize returns absent, never the raw payload.
C12_UndecodableIsMiss ==
    ReadUndecodable => last_call.ret = None

-----------------------------------------------------------------------------
\* The name as the claim compares it: case-folded and trimmed.
CaseFoldTrim(name) == Strip(Lower(name))

\* The earlier lookups the last call's name matches.
EarlierSameName ==
    { m \in DOMAIN web_last.prior : CaseFoldTrim(m) = CaseFoldTrim(web_last.name) }

ContactFields == {"phone", "email", "facebook_url"}

\* The item has a value for the field.
Supplies(item, f) ==
    CASE f = "phone" -> item.phone # NoMatch
      [] f = "email" -> item.email # NoMatch
      [] f = "facebook_url" -> item.link # NoMatch /\ item.link.facebook

AllFoundBy(items, n) ==
    \A f \in ContactFields : \E i \in 1..n : Supplies(items[i], f)

\* The first item after which all three fields are found, else the last one.
StopPoint(items) ==
    IF \E n \in 1..Len(items) : AllFoundBy(items, n)
    THEN CHOOSE n \in 1..Len(items) :
            AllFoundBy(items, n) /\ \A k \in 1..(n - 1) : ~AllFoundBy(items, k)
    ELSE Len(items)

\* The field as the first of the items 1..n that supplies it gives it.
FirstFound(items, n, f) ==
    IF \E i \in 1..n : Supplies(items[i], f)
    THEN LET i == CHOOSE i \in 1..n :
                     Supplies(items[i], f) /\ \A k \in 1..(i - 1) : ~Supplies(items[k], f)
         IN  process_search_item(items[i], EmptyContactInfo)[f]
    ELSE None

\* C18: the scan examines the items in order and ends at the first item after
\* which phone, email and social URL are all found, or at the end of the
\* list; no later item is examined, and each field keeps the value of the
\* first item that supplied it.
C18_ScanStopsWhenAllFound ==
    /\ web_pc = "scan" => web_index < StopPoint(search_items)
    /\ web_pc = "store" => web_index = StopPoint(search_items)
    /\ web_pc \in {"scan", "store"} =>
          \A f \in ContactFields :
              contact_info[f] = FirstFound(search_items, web_index, f)

C18_Witness ==
    /\ web_pc = "store"
    /\ web_index = 2
    /\ Len(search_items) = 3
    /\ Supplies(search_items[2], "phone")
    /\ Supplies(search_items[1], "phone")
    /\ search_items[2].phone # search_items[1].phone
    /\ contact_info.phone = format_phone(search_items[1].phone.v)

\* C19: a snippet with "+54 11 1234-5678" and an email resolves to the phone
\* "+5491112345678", the indicator 9 injected after the country code, and to
\* the email unchanged.
C19_IndicatorInjected ==
    (/\ web_pc = "store"
     /\ search_items # <<>>
     /\ search_items[1] = Item(Str(PhoneNoIndicator), Str(EmailOne), NoMatch))
    => /\ contact_info.phone =
            Str(<<"+", "5", "4", "9", "1", "1", "1", "2", "3", "4", "5", "6", "7", "8">>)
       /\ contact_info.email = Str(EmailOne)

-----------------------------------------------------------------------------
\* The keys of a business record in the common shape.
CommonShape ==
    {"business_id", "name", "phone_number", "full_address", "rating", "review_count",
     "website", "place_link"}

\* A success with 1 to 3 business records in the common shape.
OkWithPlaces(ret) ==
    /\ ret.t = "dict"
    /\ Get(ret, "status", None) = Text("ok")
    /\ Get(ret, "data", None).t = "list"
    /\ Len(Get(ret, "data", None).v) \in 1..3
    /\ \A i \in 1..Len(Get(ret, "data", None).v) :
          /\ Get(ret, "data", None).v[i].t = "dict"
          /\ DOMAIN Get(ret, "data", None).v[i].v = CommonShape

\* The last call was find_business for a name, and it found no cached result.
LookedUp ==
    /\ gmaps_last.fn = "find_business"
    /\ gmaps_last.name # <<>>
    /\ gmaps_last.requests # <<>>

\* C15: when the primary provider yields no usable result and the secondary
\* provider answers with status OK and at least one result, find_business
\* returns status ok with 1 to 3 business records in the common shape.
C15_FallbackGivesPlaces ==
    (/\ LookedUp
     /\ gmaps_fallback_key
     /\ ~GaveResults(PrimaryUsed(gmaps_last.attempts))
     /\ PrimaryUsed(gmaps_last.attempts).t # "list"
     /\ GaveResults(gmaps_last.answer)
     /\ Get(gmaps_last.answer, "status", None) = Text("OK"))
    => OkWithPlaces(gmaps_last.ret)

\* C16: with a cache, a lookup the primary provider answers with places is
\* returned as a success and written to the cache for several hours, and a
\* later lookup for the same seller makes no request.
C16_SuccessCachedAndReused ==
    (gmaps_cache = TRUE /\ gmaps_last.fn = "find_business" /\ gmaps_last.name # <<>>)
    => /\ (gmaps_last.requests # <<>> /\ GaveResults(PrimaryUsed(gmaps_last.attempts)))
          => /\ OkWithPlaces(gmaps_last.ret)
             /\ (<<"gmaps_business_">> \o gmaps_last.name) \in DOMAIN memory_cache
             /\ memory_cache[<<"gmaps_business_">> \o gmaps_last.name].expiry
                   >= gmaps_last.at + 2 * 3600
       /\ gmaps_last.again => gmaps_last.requests = <<>>

-----------------------------------------------------------------------------
\* The last call asked for both sub-resolvers and both are configured.
AskedBoth ==
    /\ contacts_last.fn = "get_contact_info"
    /\ contacts_last.search_strategy = "all"
    /\ agente_web = TRUE

Called(name) == \E i \in 1..Len(contacts_last.queried) : contacts_last.queried[i] = name

FirstPlace(answer) ==
    IF /\ answer.t = "dict"
       /\ Get(answer, "data", List(<<>>)).t = "list"
       /\ Get(answer, "data", List(<<>>)).v # <<>>
    THEN Get(answer, "data", List(<<>>)).v[1]
    ELSE Dict(NoKeys)

WebFirstFields == {"phone", "email", "facebook_url"}
PlacesFirstFields == {"address", "website"}

\* The field as each sub-resolver supplied it.
FromWeb(f) ==
    IF contacts_last.web_answer.t = "dict" THEN Get(contacts_last.web_answer, f, None) ELSE None
FromPlaces(f) ==
    LET place == FirstPlace(contacts_last.location_answer) IN
    CASE f = "phone" -> Get(place, "phone_number", None)
      [] f = "address" -> Get(place, "full_address", None)
      [] f = "website" -> Get(place, "website", None)
      [] OTHER -> None

\* The field of the one record the call returned for the seller.
RecordField(f) ==
    LET data == Get(contacts_last.ret, "data", Dict(NoKeys)) IN
    CASE f = "phone" -> Or(Get(data, "phone", None), Get(data, "phone_number", None))
      [] f = "address" -> Or(Get(data, "address", None), Get(data, "full_address", None))
      [] OTHER -> Get(data, f, None)

\* C14: the facade returns one record per seller; a field only one
\* sub-resolver supplies is kept; of a field both supply, the web value wins
\* for phone, email and social URL, the places value for address and website.
C14_MergedRecord ==
    AskedBoth =>
        /\ \A f \in WebFirstFields : RecordField(f) = Or(FromWeb(f), FromPlaces(f))
        /\ \A f \in PlacesFirstFields : RecordField(f) = Or(FromPlaces(f), FromWeb(f))

-----------------------------------------------------------------------------
\* The rule of the claim: the nickname, compared without regard to case,
\* contains an excluded brand, or the price is out of bounds, or the condition
\* is not allowed.
ClaimedDrop(item) ==
    \/ \E i \in 1..Len(excluded_brands) :
          /\ seller_nickname_raw(item) # <<>>
          /\ Contains(Lower(seller_nickname_raw(item)), Lower(excluded_brands[i]))
    \/ LessThan(Get(item, "price", Num(0)), filter_config.min_price)
    \/ /\ filter_config.max_price # Infinity
       /\ Get(item, "price", Num(0)).v > filter_config.max_price.v
    \/ Get(item, "condition", NotSpecified) \notin filter_config.allowed_conditions

ClaimedKept(item) == ~ClaimedDrop(item)

\* C20: filter_listings drops a listing if and only if its seller nickname,
\* compared case-insensitively, contains an excluded brand, or its price is
\* outside [min_price, max_price], or its condition is not allowed, for any
\* casing of the nickname and of the configured brand.
C20_FilterRule ==
    filter_pc = "done" => filtered_listings = SelectSeq(filter_input, ClaimedKept)

-----------------------------------------------------------------------------
\* The listing is in the list.
In(item, items) == \E j \in 1..Len(items) : items[j] = item

\* Price and condition of the listing are within the configured bounds.
WithinBounds(item) ==
    /\ ~LessThan(Get(item, "price", Num(0)), filter_config.min_price)
    /\ \/ filter_config.max_price = Infinity
       \/ Get(item, "price", Num(0)).v <= filter_config.max_price.v
    /\ Get(item, "condition", NotSpecified) \in filter_config.allowed_conditions

\* seller.nickname of the listing is the empty string (or is missing).
EmptyNickname(item) ==
    Get(Get(item, "seller", Dict(NoKeys)), "nickname", Str(<<>>)) = Str(<<>>)

\* No excluded brand is in the shop nickname (seller.eshop.nick_name) the
\* filter falls back to, compared without regard to case.
NoBrandInShopName(item) ==
    \A i \in 1..Len(excluded_brands) :
        ~Contains(Lower(seller_nickname_raw(item)), Lower(excluded_brands[i]))

\* C21 as stated: a listing whose seller nickname is empty and whose price
\* and condition are within bounds is always kept by filter_listings.
C21_EmptySellerKept ==
    filter_pc = "done" =>
        \A j \in 1..Len(filter_given) :
            EmptyNickname(filter_given[j]) /\ WithinBounds(filter_given[j])
                => In(filter_given[j], filtered_listings)

\* C21, amended: a listing whose seller nickname is empty, whose shop
\* nickname (seller.eshop.nick_name, if any) contains no excluded brand, and
\* whose price and condition are within bounds is always kept by
\* filter_listings.
C21_NamelessKept ==
    filter_pc = "done" =>
        \A j \in 1..Len(filter_given) :
            /\ EmptyNickname(filter_given[j])
            /\ NoBrandInShopName(filter_given[j])
            /\ WithinBounds(filter_given[j])
            => In(filter_given[j], filtered_listings)

C21_Witness ==
    /\ filter_pc = "done"
    /\ excluded_brands # <<>>
    /\ Len(filter_given) = MaxListings
    /\ filter_given[1] = Listing(Seller(<<>>), 12, New)
    /\ WithinBounds(filter_given[1])
    /\ In(filter_given[1], filtered_listings)
    /\ Len(filtered_listings) < Len(filter_given)

-----------------------------------------------------------------------------
\* a is b with some of its entries left out, the others in b's order.
RECURSIVE IsSubsequence(_, _)
IsSubsequence(a, b) ==
    IF a = <<>> THEN TRUE
    ELSE IF b = <<>> THEN FALSE
    ELSE IF Head(a) = Head(b) THEN IsSubsequence(Tail(a), Tail(b))
    ELSE IsSubsequence(a, Tail(b))

-----------------------------------------------------------------------------
(* Claims about the ranking *)

\* The orders of the indices 1..n.
Orders(n) == { f \in [1..n -> 1..n] : \A i, j \in 1..n : i # j => f[i] # f[j] }

\* The score the call gave the product it returned at position k.
ScoreAt(l, k) == l[k]["v"]["_ranking_score"]["v"]

\* l holds the given products, each with a score, the higher score first and
\* products of equal score as the input had them.
SortedStable(l, given) ==
    /\ Len(l) = Len(given)
    /\ \E f \in Orders(Len(given)) :
          /\ \A k \in 1..Len(l) :
                l[k] = With(given[f[k]], "_ranking_score", Num(ScoreAt(l, k)))
          /\ \A k, m \in 1..Len(l) :
                k < m => \/ ScoreAt(l, k) > ScoreAt(l, m)
                         \/ ScoreAt(l, k) = ScoreAt(l, m) /\ f[k] < f[m]

RankedAll ==
    /\ rank_pc \in {"ranked", "twice"}
    /\ result_limit(rank_call.limit, rank_call.top_n) = 0

Limit == result_limit(rank_call.limit, rank_call.top_n)

\* C24: rank_products over n listings returns exactly the first min(limit, n)
\* entries of the sorted order when limit > 0 and all n entries when
\* limit = 0; when top_n is given it is used in place of limit.
C24_FirstLimitEntries ==
    rank_pc \in {"ranked", "twice"} =>
        \E sorted \in {rank_products(rank_call.given, 0, None, weights)} :
            /\ rank_call.top_n # None =>
                  rank_call.ret = rank_products(rank_call.given, rank_call.top_n.v, None,
                                                weights)
            /\ Limit = 0 => rank_call.ret = sorted
            /\ Limit > 0 =>
                  /\ Len(rank_call.ret) = Smaller(Limit, Len(rank_call.given))
                  /\ rank_call.ret = SubSeq(sorted, 1, Len(rank_call.ret))

C24_Witness ==
    /\ rank_pc = "ranked"
    /\ rank_call.top_n = Num(1)
    /\ rank_call.limit = 2
    /\ Len(rank_call.given) = MaxProducts
    /\ Len(rank_call.ret) = 1
    /\ ScoreAt(rank_call.ret, 1) > 0
    /\ rank_call.ret[1] # With(rank_call.given[1], "_ranking_score", Num(ScoreAt(rank_call.ret, 1)))

\* C25: every score calculate_score produces lies in [0,1], for every
\* listing, including ones with missing, null or malformed fields, and for
\* every configured weight set.
C25_ScoreInUnitInterval ==
    /\ rank_pc = "scored" => rank_call.ret >= 0 /\ rank_call.ret <= One
    /\ rank_pc \in {"ranked", "twice"} =>
          \A k \in 1..Len(rank_call.ret) :
              ScoreAt(rank_call.ret, k) >= 0 /\ ScoreAt(rank_call.ret, k) <= One

C25_Witness ==
    /\ rank_pc = "scored"
    /\ weights = Dict([price |-> Num(2000), sales |-> Num(3000), condition |-> Num(1000)])
    /\ "seller" \in DOMAIN rank_call.product.v
    /\ rank_call.ret = One

\* C26: for any two prices p1 <= p2, p1 = 0 or negative included, the price
\* factor of p1 is greater than or equal to the price factor of p2.
C26_PriceMonotone ==
    rank_pc = "priced" => rank_call.f1 >= rank_call.f2

(***************************************************************************)
(* Claims about the pipeline                                               *)
(***************************************************************************)
\* A region code that is a string of two letters
TwoLetters(country) ==
    /\ IsStr(country)
    /\ Len(country.v) = 2
    /\ \A i \in 1..Len(country.v) : IsLetter(country.v[i])

InvalidInput(args) ==
    \/ ~Truthy(args.query)
    \/ ~NotBlank(args.query.v)
    \/ ~TwoLetters(args.country_code)

\* C27: execute_top_seller_search raises if and only if its input is
\* invalid (an empty or blank query, a region code that is not a string of
\* two letters); what it rejects it rejects before any provider was called,
\* and no provider's failure reaches the caller of a valid call.
C27_RaisesIffInvalidInput ==
    pipe_pc = "done" =>
        /\ (pipe_result.t = "raised") <=> InvalidInput(pipe_args)
        /\ pipe_result.t = "raised" => pipe_trace = <<>>

\* The place of a stage in the order Search, Filter, Rank, Contact Resolution
StageNumber(e) ==
    CASE e = "search" -> 1
      [] e = "filter" -> 2
      [] e = "rank" -> 3
      [] e = "contact" -> 4

\* C28: the stages of a run are called in the order Search, Filter, Rank,
\* Contact Resolution; a contact lookup is made only after the ranking has
\* returned, and only for a product the ranking returned.
C28_StageOrder ==
    \A j \in 1..Len(pipe_trace) :
        /\ \A i \in 1..(j - 1) :
              StageNumber(pipe_trace[i].e) <= StageNumber(pipe_trace[j].e)
        /\ pipe_trace[j].e = "contact" =>
              \E i \in 1..(j - 1) :
                 /\ pipe_trace[i].e = "rank"
                 /\ pipe_trace[j].ids \subseteq pipe_trace[i].ids

\* C30: an orchestrator constructed without a required secret issues no
\* request to a provider: its run is aborted before the marketplace is
\* asked.
C30_NoRequestWithoutSecret ==
    (orchestrator # "off" /\ missing_secrets(secrets) # {}) =>
        \A i \in 1..Len(pipe_trace) : pipe_trace[i].e \notin {"search", "contact"}

(***************************************************************************)
(* Claims about the HTTP clients                                           *)
(***************************************************************************)
\* The attempts of the call that were followed by another attempt
Retried == 1..(Len(http_attempts) - 1)

\* A connection error, a timeout, a 5xx response or the rate-limit response
RetriableCondition(answer) ==
    \/ answer.exc \in {"ConnectionError", "Timeout"}
    \/ answer.status >= 500 /\ answer.status < 600
    \/ answer.status = 429

WebCall == ResolverCall("web", contacts_last.seller_name, {})
PlacesCall == ResolverCall("locations", contacts_last.seller_name, {<<"use_fallback", TRUE>>})

\* The result holds what each sub-resolver that was called returned.
CarriesOutputs ==
    LET data == Get(contacts_last.ret, "data", Dict(NoKeys)) IN
    /\ (Called("web") /\ contacts_last.web_answer # Raised)
          => Get(data, "web", None) = contacts_last.web_answer
    /\ (Called("locations") /\ contacts_last.location_answer # Raised)
          => Get(data, "locations", None) = contacts_last.location_answer

Required ==
    CASE contacts_last.search_strategy = "web" -> {"web"}
      [] contacts_last.search_strategy = "location" -> {"locations"}
      [] contacts_last.search_strategy = "all" -> {"web", "locations"}
      [] OTHER -> {}

AnswerOf(resolver) ==
    IF resolver = "web" THEN contacts_last.web_answer ELSE contacts_last.location_answer

\* The sub-resolver was called and returned contact data.
ReturnedData(resolver) ==
    /\ Called(resolver)
    /\ AnswerOf(resolver) \notin {Raised, Dict(EmptyContactInfo), SearchError}

\* The sub-resolver was called and raised.
Failed(resolver) == Called(resolver) /\ AnswerOf(resolver) = Raised

\* C33: if every sub-resolver the strategy requires returns data without
\* raising, the status of the result is success; the status is partial only
\* if a required sub-resolver failed and another one succeeded.
C33_StatusOfResult ==
    (contacts_last.fn = "get_contact_info" /\ Required # {}) =>
        LET status == Get(contacts_last.ret, "status", None) IN
        /\ (\A r \in Required : ReturnedData(r)) => status = Text("success")
        /\ status = Text("partial_success") =>
              \E r \in Required, other \in Required :
                 r # other /\ Failed(r) /\ ~Failed(other) /\ Called(other)

(***************************************************************************)
(* Claims about failed lookups and the cache of the places resolver        *)
(***************************************************************************)
\* The keys find_business and search_business use for the seller
PlaceKeys(name) ==
    { <<"gmaps_business_">> \o name, <<"business_search:">> \o Strip(Lower(name)) }

\* The last call was a lookup that asked the providers and got no place.
LookupInVain ==
    /\ gmaps_last.fn \in {"find_business", "search_business"}
    /\ gmaps_last.name # <<>>
    /\ gmaps_last.requests # <<>>
    /\ ~GaveResults(PrimaryUsed(gmaps_last.attempts))
    /\ ~(/\ AskedSecondary(gmaps_last.requests)
         /\ GaveResults(gmaps_last.answer)
         /\ Get(gmaps_last.answer, "status", None) = Text("OK"))

\* C35: after a lookup that got an error or no result from the providers the
\* cache holds no entry for the seller, and a lookup for a seller that so far
\* was only looked up in vain asks the providers again.
C35_FailureNotCached ==
    /\ LookupInVain => PlaceKeys(gmaps_last.name) \cap DOMAIN memory_cache = {}
    /\ (/\ gmaps_last.fn \in {"find_business", "search_business"}
        /\ gmaps_last.failed_before
        /\ ~gmaps_last.again)
       => gmaps_last.requests # <<>>

\* With a cache: a second search_business for a seller whose first lookup
\* got nothing asked the providers again, got nothing, and left no entry.
C35_Witness ==
    /\ gmaps_cache = TRUE
    /\ gmaps_last.fn = "search_business"
    /\ gmaps_last.failed_before
    /\ LookupInVain
    /\ PlaceKeys(gmaps_last.name) \cap DOMAIN memory_cache = {}

-----------------------------------------------------------------------------
(* Claims about the pagination of the marketplace clients *)

\* The step issues the request that follows an earlier request of the search.
FollowingRequest == simple_last.n >= 1 /\ simple_last'.n = simple_last.n + 1

\* C36: after a page request that ends in a non-2xx status, malformed JSON,
\* a network error or an empty result set, the next request is for the next
\* page number, and no page number is requested twice in one search.
C36_PageAdvanceOnFailure ==
    [][FollowingRequest =>
          /\ simple_last'.page # simple_last.page
          /\ simple_last.kind \in SimpleFailures \cup {"empty"}
                => simple_last'.page = simple_last.page + 1]_vars

\* The page numbers requested so far are at most max_pages.
PagesWithinMax ==
    /\ simple_last.page <= simple_max_pages
    /\ \A i \in 1..Len(requests) : requests[i].page <= max_pages

\* The number of requests issued so far is bounded by max_pages and the
\* threshold of consecutive failing pages: per page at most
\* max_consecutive_empty requests of the single-host client, and max_pages
\* requests per combination of the probing client.
RequestsBounded ==
    /\ simple_last.n <= max_consecutive_empty * simple_max_pages
    /\ Len(requests) <= NumEndpoints * NumHosts * NumParamOptions * max_pages

SearchReturned == pc = "done" \/ simple_pc = "done"

\* C39: for every sequence of provider responses (failures, empty pages,
\* pages without sellers, in any order) the search reaches its return, never
\* requests a page number above max_pages, and issues a number of requests
\* bounded by a function of max_pages and the consecutive-failure threshold.
C39_SearchTerminates ==
    /\ []PagesWithinMax
    /\ []RequestsBounded
    /\ <>SearchReturned

\* C39 witness: a search of the single-host client has returned after
\* max_consecutive_empty requests for each of its pages, the last of them
\* unanswered by listings.
C39_Witness ==
    /\ simple_pc = "done"
    /\ simple_max_pages >= 2
    /\ simple_last.n = max_consecutive_empty * simple_max_pages
    /\ simple_last.page = simple_max_pages

-----------------------------------------------------------------------------
(* Claims about the contact data in the output of the pipeline *)

\* The facade found data for the seller: a sub-resolver returned a result
\* that is not empty.
FacadeFoundData == \E resolver \in {"web", "locations"} : ReturnedData(resolver)

\* C34: whenever the contact facade found data for the seller of a listing
\* (at least one sub-resolver returned a non-empty result), the contact
\* record the orchestrator attaches to the listing is not empty.
C34_ContactDataAttached ==
    (product_contact # NoCall /\ FacadeFoundData) => Truthy(product_contact)

\* The products without a seller name that the marketplace can answer with
NamelessIds ==
    { Get(p, "id", None).v : p \in {q \in MarketplaceProducts : ~has_seller_name(q)} }

\* C37: a listing with an empty seller nickname that satisfies the price and
\* condition bounds is in the output of the run, and no contact was looked
\* up for it: it is not removed before or after the filter stage.
C37_EmptySellerSurfaced ==
    (pipe_pc = "done" /\ pipe_result.t = "list" /\ pipe_trace # <<>>) =>
        \A id \in NamelessIds \cap pipe_trace[1].ids :
            /\ id \in product_ids(pipe_result.v)
            /\ \A i \in 1..Len(pipe_trace) : pipe_trace[i] # Event("contact", {id})

\* The products the ranking of the run returned
Ranked == UNION { pipe_trace[i].ids : i \in {j \in 1..Len(pipe_trace) : pipe_trace[j].e = "rank"} }

\* C31: a run returns to its caller no later than the deadline of the run;
\* contact resolutions still in flight then are abandoned and every ranked
\* listing is returned, with the contact data that had completed.
C31_ReturnsByDeadline ==
    (pipe_pc = "done" /\ pipe_result.t = "list") =>
        /\ pipe_clock <= pipe_deadline
        /\ product_ids(pipe_result.v) = Ranked

-----------------------------------------------------------------------------
(* Claims about the two stores of the cache *)

\* C38: for every sequence of set, get and delete calls a cache on the
\* in-process map returns the same results as one on the networked store,
\* also after an object that was stored or returned is changed in place, and
\* for a set with a TTL that is not positive or a value that is not JSON.
C38_SameResults == twin_last.memory = twin_last.redis

=============================================================================
